---- MODULE Spec2Model ----
(***************************************************************************)
(* PrintStack (falcnor/PrintStack): the entity store of deploy/script.js   *)
(* (filaments, models, prints, their persistence and import), the          *)
(* referential-integrity guard of deleteFilament, the print form's         *)
(* auto-populate and the EnhancedDataGrid / FilamentTable query engine.    *)
(*                                                                         *)
(* Encoding of JavaScript values                                           *)
(*   text     a sequence of one-character strings, <<"R","e","d">>;        *)
(*            UNDEF is the value undefined where text is expected          *)
(*   number   an integer; NoNum is undefined.  Ids are counted in half     *)
(*            milliseconds: id = 2 * ms + frac, frac = 1 standing for a    *)
(*            non-integer value such as Date.now() + Math.random().        *)
(*            Diameters are in 1/100 mm (175, 285, 300).                   *)
(*   boolean  "true", "false" or "undefined"                               *)
(***************************************************************************)
EXTENDS Integers, Sequences, FiniteSets, TLC

VARIABLES
    filaments,      \* script.js:3   let filaments = []
    models,         \* script.js:4   let models = []
    prints,         \* script.js:5   let prints = []
    editingModelId, \* script.js:7   the model the edit modal is open on
    storage,        \* localStorage: keys printstackData, filaments, models, prints
    now,            \* Date.now(), in milliseconds since the page was first opened
    printForm,      \* #printFilamentsContainer: the rows of the print form
    saveResult,     \* what the handler's last saveData() call returned
    grid,           \* window.dataGrids.filamentTable (a FilamentTable)
    validation,     \* the last validateField(fieldName, value) call and what it returned
    search,         \* #filamentTableSearch, its input listeners and their pending timers
    inventoryConfirm, \* script.js:1766  the answer to the confirm() of the inventory check
    reactForm       \* PrintForm.jsx:13-23  the state of the React print form

\* the page outside the store and the grid
pageVars == <<validation, search, inventoryConfirm, reactForm>>

vars == <<filaments, models, prints, editingModelId, storage, now, printForm, saveResult, grid,
          pageVars>>

storeVars == <<filaments, models, prints, editingModelId, storage, now, printForm, saveResult,
               pageVars>>

----------------------------------------------------------------------------
(* Bounds of the model *)

MaxFilaments == 2

MaxModels == 2

MaxPrints == 1

MaxReqs == 2

MaxNow == 5

----------------------------------------------------------------------------
(* JavaScript text *)

UNDEF == <<"undefined">>

NoNum == 0 - 1

Upper == <<"A","B","C","D","E","F","G","H","I","J","K","L","M","N","O","P","Q","R","S","T","U","V","W","X","Y","Z">>

Lower == <<"a","b","c","d","e","f","g","h","i","j","k","l","m","n","o","p","q","r","s","t","u","v","w","x","y","z">>

LowerChar(c) ==
    IF \E i \in DOMAIN Upper : Upper[i] = c
    THEN Lower[CHOOSE i \in DOMAIN Upper : Upper[i] = c]
    ELSE c

\* String.prototype.toLowerCase
ToLowerCase(s) == [i \in DOMAIN s |-> LowerChar(s[i])]

\* how a template literal `${v}` renders a value: undefined becomes the text "undefined"
Render(v) == IF v = UNDEF THEN <<"u","n","d","e","f","i","n","e","d">> ELSE v

\* String.prototype.includes
Includes(s, q) ==
    \E k \in 0..(Len(s) - Len(q)) : \A i \in 1..Len(q) : s[k + i] = q[i]

\* !v for a text value: undefined and "" are falsy
Falsy(v) == v = UNDEF \/ v = <<>>

\* !n for a number: undefined and 0 are falsy
FalsyNum(n) == n = NoNum \/ n = 0

HexDigits == {"0","1","2","3","4","5","6","7","8","9","a","b","c","d","e","f","A","B","C","D","E","F"}

\* /^#[0-9A-Fa-f]{6}$/.test(s)
MatchesHexPattern(s) ==
    /\ s # UNDEF
    /\ Len(s) = 7
    /\ s[1] = "#"
    /\ \A i \in 2..7 : s[i] \in HexDigits

\* [1.75, 2.85].includes(d)
AllowedDiameter(d) == d \in {175, 285}

\* Number.isInteger(id) for an id counted in half milliseconds
IsInteger(id) == id % 2 = 0

\* parseInt / Math.floor of an id
Floor(id) == id - (id % 2)

----------------------------------------------------------------------------
(* The values the forms and import files of the model offer *)

Acme == <<"A","c">>

Bolt == <<"B","o">>

PLA == <<"P","L","A">>

PETG == <<"P","E","T","G">>

Red == <<"R","e","d">>

Blue == <<"B","l","u","e">>

HexRed == <<"#","F","F","0","0","0","0">>

HexGray == <<"#","c","c","c","c","c","c">>

Unknown == <<"U","n","k","n","o","w","n">>

\* a colour typed as a word: a file can carry it, no colour input produces it
BadHex == <<"r","e","d">>

Vase == <<"V","a">>

VaseLower == <<"v","a">>

ModelNames == {Vase, VaseLower}

\* the value of the print form's date input, in days after the current date
PrintDates == {0, 1}

\* the weights (grams) a weight input of the model can hold; 0 is the empty input
RowWeights == {0, 20}

\* a Filament object; the fields no operation of the model reads (notes, purchasePrice,
\* temperature, purchaseDate, lastModified) are left out
Fil(id, brand, materialType, color, colorHex, diameter, inStock) ==
    [id |-> id, brand |-> brand, materialType |-> materialType, material |-> UNDEF,
     colorName |-> UNDEF, color |-> color, colorHex |-> colorHex, diameter |-> diameter,
     weight |-> 500, location |-> <<>>, inStock |-> inStock,
     deletionBlocked |-> "undefined"]

\* a requirement of a Model
Req(filamentId, color, material, materialType) ==
    [filamentId |-> filamentId, color |-> color, material |-> material,
     materialType |-> materialType]

\* one entry of a PrintRecord's filaments list
Usage(f, weight) ==
    [filamentId |-> Floor(f.id),
     color |-> IF Falsy(f.colorName) THEN f.color ELSE f.colorName,
     material |-> IF Falsy(f.materialType) THEN f.material ELSE f.materialType,
     weight |-> weight, colorHex |-> f.colorHex]

----------------------------------------------------------------------------
(* Sequence helpers *)

Range(s) == {s[i] : i \in DOMAIN s}

\* Array.prototype.find as an index: the first position satisfying P, 0 if none
FindIndex(s, P(_)) ==
    IF \E i \in DOMAIN s : P(s[i])
    THEN CHOOSE i \in DOMAIN s : P(s[i]) /\ \A j \in 1..(i - 1) : ~P(s[j])
    ELSE 0

\* all sequences over S of length lo..hi
SeqsOf(S, lo, hi) == UNION {[1..n -> S] : n \in lo..hi}

\* String.prototype.trim
RECURSIVE TrimLeft(_)
TrimLeft(s) == IF s # <<>> /\ Head(s) = " " THEN TrimLeft(Tail(s)) ELSE s

RECURSIVE TrimRight(_)
TrimRight(s) ==
    IF s # <<>> /\ s[Len(s)] = " " THEN TrimRight(SubSeq(s, 1, Len(s) - 1)) ELSE s

Trim(s) == TrimRight(TrimLeft(s))

----------------------------------------------------------------------------
(* Persistence: saveData, validateFilamentData, ensureFilamentIds, loadData *)

\* localStorage.getItem of a key never written
NoItem == <<>>

\* JSON.stringify of a collection or of the envelope.  On the values of this model
\* (no NaN, no cyclic object) the text parses back to the value it was made from, an
\* absent field reading as undefined again; the tag keeps a stored text apart from
\* the live object.
JSONStringify(v) == <<"json", v>>

\* JSON.parse
JSONParse(text) == text[2]

ColorHexValid(f) == ~Falsy(f.colorHex) /\ MatchesHexPattern(f.colorHex)

DiameterValid(f) == ~FalsyNum(f.diameter) /\ AllowedDiameter(f.diameter)

\* the test of one Filament without the colorHex test
ValidWithoutColorHex(f) ==
    /\ ~Falsy(f.brand) /\ Trim(f.brand) # <<>>
    /\ ~Falsy(f.materialType) /\ Trim(f.materialType) # <<>>
    /\ ~Falsy(f.color) /\ Trim(f.color) # <<>>
    /\ ~FalsyNum(f.weight) /\ f.weight > 0
    /\ DiameterValid(f)

\* the test validateFilamentData applies to one Filament (purchasePrice and
\* temperature are absent from the records of the model, so their tests pass)
ValidFilamentRecord(f) ==
    /\ ~Falsy(f.brand) /\ Trim(f.brand) # <<>>
    /\ ~Falsy(f.materialType) /\ Trim(f.materialType) # <<>>
    /\ ~Falsy(f.color) /\ Trim(f.color) # <<>>
    /\ ColorHexValid(f)
    /\ ~FalsyNum(f.weight) /\ f.weight > 0
    /\ DiameterValid(f)

ValidateFilamentData(fs) == \A i \in DOMAIN fs : ValidFilamentRecord(fs[i])

\* the number of setItem calls of saveData
AllWritten == 4

\* what the setItem calls of saveData may do: w of them succeed and the next throws
\* (quota exceeded, storage disabled); AllWritten is the save with no failure
WriteOutcomes == 0..AllWritten

\* saveData() with the collections fs, ms, ps in memory and st in localStorage.
\* The envelope's lastSaved timestamp is not modelled.
SaveData(fs, ms, ps, st, w) ==
    IF ~ValidateFilamentData(fs)
    THEN [storage |-> st, result |-> "refused"]
    ELSE [storage |->
            [printstackData |->
                IF w >= 1
                THEN JSONStringify([filaments |-> fs, models |-> ms, prints |-> ps,
                                    version |-> "2.0"])
                ELSE st.printstackData,
             filaments |-> IF w >= 2 THEN JSONStringify(fs) ELSE st.filaments,
             models |-> IF w >= 3 THEN JSONStringify(ms) ELSE st.models,
             prints |-> IF w >= 4 THEN JSONStringify(ps) ELSE st.prints],
          result |-> IF w >= 4 THEN "ok" ELSE "threw"]

\* the id test of ensureFilamentIds
BadFilamentId(id) == FalsyNum(id) \/ ~IsInteger(id)

\* how many Filaments up to position i ensureFilamentIds gives a new id
Reassigned(fs, i) == Cardinality({j \in 1..i : BadFilamentId(fs[j].id)})

\* the Filaments after ensureFilamentIds at time t.  Math.floor(Date.now() +
\* Math.random() * 1000000) is an integer not before t; the model takes the ids it
\* draws to be fresh (t + 1, t + 2, ...), and the clock to have passed them afterwards.
EnsureFilamentIds(fs, t) ==
    [i \in DOMAIN fs |->
        IF BadFilamentId(fs[i].id)
        THEN [fs[i] EXCEPT !.id = 2 * (t + Reassigned(fs, i))]
        ELSE fs[i]]

\* the migration loadData applies to one stored Filament
MigrateFilament(f) ==
    LET f1 == IF Falsy(f.materialType) /\ ~Falsy(f.material)
              THEN [f EXCEPT !.materialType = f.material] ELSE f
        f2 == IF Falsy(f1.brand) THEN [f1 EXCEPT !.brand = Unknown] ELSE f1
        f3 == IF Falsy(f2.colorHex) THEN [f2 EXCEPT !.colorHex = HexGray] ELSE f2
        f4 == IF FalsyNum(f3.diameter) THEN [f3 EXCEPT !.diameter = 175] ELSE f3
    IN  IF f4.inStock = "undefined" THEN [f4 EXCEPT !.inStock = "true"] ELSE f4

\* the migration loadData and handleImport apply to one requirement
MigrateRequirement(r) ==
    IF ~Falsy(r.material) /\ Falsy(r.materialType)
    THEN [r EXCEPT !.materialType = r.material] ELSE r

MigrateModel(m) ==
    [m EXCEPT !.requirements = [i \in DOMAIN m.requirements |->
                                    MigrateRequirement(m.requirements[i])]]

\* the defaults handleImport gives one imported Filament (its id apart)
ImportFilament(f) ==
    LET f1 == IF Falsy(f.brand) THEN [f EXCEPT !.brand = Unknown] ELSE f
        f2 == IF Falsy(f1.materialType) /\ ~Falsy(f1.material)
              THEN [f1 EXCEPT !.materialType = f1.material] ELSE f1
        f3 == IF Falsy(f2.materialType) THEN [f2 EXCEPT !.materialType = Unknown] ELSE f2
        f4 == IF Falsy(f3.colorHex) THEN [f3 EXCEPT !.colorHex = HexGray] ELSE f3
    IN  IF FalsyNum(f4.diameter) THEN [f4 EXCEPT !.diameter = 175] ELSE f4

----------------------------------------------------------------------------
(* The filament grid as the store's handlers leave it (updateAllTables) *)

\* currentSort.column before any header is clicked: null
NoColumn == "null"

\* new FilamentTable(): the constructor's fields
NewGrid ==
    [originalData |-> <<>>, visibleData |-> <<>>, currentPage |-> 1, itemsPerPage |-> 25,
     currentSort |-> [column |-> NoColumn, ascending |-> TRUE]]

\* FilamentTable.updateData() with the global filaments = fs
UpdateData(g, fs) ==
    [g EXCEPT !.originalData = fs, !.visibleData = fs, !.currentPage = 1]

\* one row of #printFilamentsContainer: the select's value and the weight input
EmptyRow == [select |-> NoNum, weight |-> 0]

\* clearPrintFilaments(): one empty row
ClearedRows == <<EmptyRow>>

\* updateAllTables(): the grids are refreshed; updatePrintSelects rebuilds the options
\* of #printModel, which leaves no model selected, and keeps the rows
UpdateAllTables(fs, rows) ==
    /\ grid' = UpdateData(grid, fs)
    /\ printForm' = [model |-> <<>>, rows |-> rows]

----------------------------------------------------------------------------
(* Filaments: addFilament, saveEditFilament, deleteFilament *)

MaterialTypes == {PLA, PETG, <<"A","B","S">>, <<"T","P","U">>}

BrandChars ==
    Range(Upper) \cup Range(Lower) \cup {"0","1","2","3","4","5","6","7","8","9"}
        \cup {" ", "-", "&", ".", ","}

\* validateForm on the filament form: validateField with the rules brand,
\* materialType, colorHex, weight and diameter of ValidationRules
FilamentFormValid(d) ==
    /\ ~Falsy(d.brand) /\ Len(d.brand) >= 2 /\ Len(d.brand) <= 100
    /\ \A i \in DOMAIN d.brand : d.brand[i] \in BrandChars
    /\ ~Falsy(d.materialType)
    /\ (d.materialType \in MaterialTypes \/ d.materialType = <<"O","t","h","e","r">>)
    /\ ~Falsy(d.colorHex) /\ MatchesHexPattern(d.colorHex)
    /\ ~FalsyNum(d.weight) /\ d.weight >= 1 /\ d.weight <= 10000
    /\ ~FalsyNum(d.diameter) /\ AllowedDiameter(d.diameter)

\* what the user may have put in the add-filament form
FilamentForms ==
    {Fil(NoNum, b, PLA, c, h, d, "true") :
        b \in {Acme}, c \in {Red}, h \in {HexRed, BadHex}, d \in {175, 300}}

\* checkForFilamentDuplicate: the position of the first Filament with the same brand,
\* materialType and colorHex ignoring case, 0 if none
CheckForFilamentDuplicate(fs, d) ==
    LET same(f) == /\ ToLowerCase(f.brand) = ToLowerCase(d.brand)
                   /\ ToLowerCase(f.materialType) = ToLowerCase(d.materialType)
                   /\ ToLowerCase(f.colorHex) = ToLowerCase(d.colorHex)
    IN  FindIndex(fs, same)

\* the heaviest spool a merge may produce in the model
MaxSpool == 1000

\* addFilament(): form is the form's content, frac whether Date.now() + Math.random()
\* came out a non-integer, merge the answer to the duplicate dialog
AddFilament(form, frac, merge, w) ==
    /\ FilamentFormValid(form)
    /\ now < MaxNow
    /\ LET data == [form EXCEPT !.id = 2 * now + frac]
           dup == CheckForFilamentDuplicate(filaments, data)
           fs == IF dup # 0 /\ merge
                 THEN [filaments EXCEPT ![dup].weight = @ + data.weight]
                 ELSE Append(filaments, data)
           saved == SaveData(fs, models, prints, storage, w)
       IN  /\ dup = 0 => ~merge
           /\ Len(fs) <= MaxFilaments
           /\ \A i \in DOMAIN fs : fs[i].weight <= MaxSpool
           /\ filaments' = fs
           /\ storage' = saved.storage
           /\ saveResult' = saved.result
           /\ UpdateAllTables(fs, printForm.rows)
    /\ now' = now + 1
    /\ UNCHANGED <<pageVars, models, prints, editingModelId>>

\* the edit modal's inputs as editFilament(id) fills them from f and the user then
\* changes them: colour and stock freely, a material type, colour code or diameter the
\* inputs cannot hold replaced by one they offer
EditFilamentForm(f, color, inStock) ==
    [f EXCEPT !.color = color, !.inStock = inStock,
              !.brand = Trim(f.brand),
              !.materialType = IF f.materialType \in MaterialTypes THEN f.materialType ELSE PLA,
              !.colorHex = IF ColorHexValid(f) THEN f.colorHex ELSE HexRed,
              !.diameter = IF DiameterValid(f) THEN f.diameter ELSE 175]

\* editFilament(id) followed by saveEditFilament()
SaveEditFilament(id, color, inStock, w) ==
    LET k == FindIndex(filaments, LAMBDA f : f.id = id)
    IN  /\ k # 0
        /\ LET form == EditFilamentForm(filaments[k], color, inStock)
               fs == [filaments EXCEPT ![k] = form]
               saved == SaveData(fs, models, prints, storage, w)
           IN  /\ FilamentFormValid(form)
               /\ filaments' = fs
               /\ storage' = saved.storage
               /\ saveResult' = saved.result
               /\ UpdateAllTables(fs, printForm.rows)
        /\ UNCHANGED <<pageVars, models, prints, editingModelId, now>>

\* the Models deleteFilament counts as referencing the Filament id
ModelReferences(ms, id) ==
    {i \in DOMAIN ms : \E j \in DOMAIN ms[i].requirements :
                            ms[i].requirements[j].filamentId = id}

\* the PrintRecords deleteFilament counts as referencing the Filament f
PrintReferences(ps, f) ==
    {i \in DOMAIN ps :
        \/ ps[i].filamentId = f.id
        \/ /\ ps[i].color = f.color
           /\ (Falsy(ps[i].material) \/ ps[i].material = f.materialType)}

\* the Filaments after deleteFilament(id) with the dialog answered OK
FilamentsAfterDelete(fs, ms, ps, id) ==
    LET k == FindIndex(fs, LAMBDA f : f.id = id)
    IN  IF ModelReferences(ms, id) = {} /\ PrintReferences(ps, fs[k]) = {}
        THEN SelectSeq(fs, LAMBDA f : f.id # id)
        ELSE [fs EXCEPT ![k].inStock = "false", ![k].deletionBlocked = "true"]

\* deleteFilament(id): confirmed is the answer to whichever dialog is shown
DeleteFilament(id, confirmed, w) ==
    /\ \E i \in DOMAIN filaments : filaments[i].id = id
    /\ IF confirmed
       THEN LET fs == FilamentsAfterDelete(filaments, models, prints, id)
                saved == SaveData(fs, models, prints, storage, w)
            IN  /\ filaments' = fs
                /\ storage' = saved.storage
                /\ saveResult' = saved.result
                /\ UpdateAllTables(fs, printForm.rows)
                /\ UNCHANGED <<pageVars, models, prints, editingModelId, now>>
       ELSE UNCHANGED vars

----------------------------------------------------------------------------
(* Models: addModel, editModel, saveEditModel, deleteModel *)

\* the Filaments a requirement search box can select: the click handler keeps
\* parseInt(item.dataset.filamentId) only if a Filament has exactly that id
SelectableIds(fs) == {fs[i].id : i \in {j \in DOMAIN fs : IsInteger(fs[j].id) /\ fs[j].id > 0}}

\* the requirements addModel (edit = FALSE) and saveEditModel (edit = TRUE) build from
\* the data-selected-id of the search boxes, sel; NoNum is a box with nothing selected
RECURSIVE RequirementsFrom(_, _, _)
RequirementsFrom(fs, sel, edit) ==
    IF sel = <<>> THEN <<>>
    ELSE LET id == Floor(Head(sel))
             k == FindIndex(fs, LAMBDA f : f.id = id)
             f == fs[k]
             one == IF Head(sel) = NoNum \/ id <= 0 \/ k = 0 THEN <<>>
                    ELSE IF edit
                    THEN <<Req(id, IF Falsy(f.colorName) THEN f.color ELSE f.colorName,
                               IF Falsy(f.materialType) THEN f.material ELSE f.materialType,
                               UNDEF)>>
                    ELSE <<Req(id, f.color, f.material, UNDEF)>>
         IN  one \o RequirementsFrom(fs, Tail(sel), edit)

\* the selections a form's search boxes can hold, boxes holding none left out: a box
\* does not offer a Filament another box of the form has selected; the model takes
\* the boxes in the order of the ids
Ascending(sel) == \A i, j \in DOMAIN sel : i < j => sel[i] < sel[j]

\* addModel(): name is the trimmed name input, sel the selections of the form
AddModel(name, sel, w) ==
    /\ name # <<>>
    /\ now < MaxNow
    /\ Len(models) < MaxModels
    /\ LET requirements == RequirementsFrom(filaments, sel, FALSE)
           ms == Append(models, [id |-> 2 * now, name |-> name, link |-> <<>>,
                                 requirements |-> requirements])
           saved == SaveData(filaments, ms, prints, storage, w)
       IN  /\ requirements # <<>>
           /\ models' = ms
           /\ storage' = saved.storage
           /\ saveResult' = saved.result
           /\ UpdateAllTables(filaments, printForm.rows)
    /\ now' = now + 1
    /\ UNCHANGED <<pageVars, filaments, prints, editingModelId>>

\* editModel(id): the modal opens on the Model
EditModel(id) ==
    /\ \E i \in DOMAIN models : models[i].id = id
    /\ editingModelId' = id
    /\ saveResult' = "none"
    /\ UNCHANGED <<pageVars, filaments, models, prints, storage, now, printForm, grid>>

\* closeEditModelModal()
CloseEditModelModal ==
    /\ editingModelId # NoNum
    /\ editingModelId' = NoNum
    /\ saveResult' = "none"
    /\ UNCHANGED <<pageVars, filaments, models, prints, storage, now, printForm, grid>>

\* the Models after the assignments saveEditModel makes before its test
ModelsAfterEdit(ms, fs, id, name, sel) ==
    LET k == FindIndex(ms, LAMBDA m : m.id = id)
    IN  [ms EXCEPT ![k].name = name, ![k].link = <<>>,
                   ![k].requirements = RequirementsFrom(fs, sel, TRUE)]

\* whether saveEditModel, having built the requirements reqs, returns before saving
EditRejected(reqs) == reqs = <<>>

\* saveEditModel(): name is the trimmed name input, sel the selections of the modal
SaveEditModel(name, sel, w) ==
    LET k == FindIndex(models, LAMBDA m : m.id = editingModelId)
    IN  /\ k # 0
        /\ LET ms == ModelsAfterEdit(models, filaments, editingModelId, name, sel)
               saved == SaveData(filaments, ms, prints, storage, w)
           IN  /\ models' = ms
               /\ IF EditRejected(ms[k].requirements)
                  THEN /\ saveResult' = "none"
                       /\ UNCHANGED <<pageVars, storage, editingModelId, printForm, grid>>
                  ELSE /\ storage' = saved.storage
                       /\ saveResult' = saved.result
                       /\ UpdateAllTables(filaments, printForm.rows)
                       /\ editingModelId' = NoNum
        /\ UNCHANGED <<pageVars, filaments, prints, now>>

\* deleteModel(id) with the dialog answered OK
DeleteModel(id, w) ==
    /\ \E i \in DOMAIN models : models[i].id = id
    /\ LET ms == SelectSeq(models, LAMBDA m : m.id # id)
           saved == SaveData(filaments, ms, prints, storage, w)
       IN  /\ models' = ms
           /\ storage' = saved.storage
           /\ saveResult' = saved.result
           /\ UpdateAllTables(filaments, printForm.rows)
    /\ UNCHANGED <<pageVars, filaments, prints, editingModelId, now>>

----------------------------------------------------------------------------
(* Prints: the print form, addPrint, saveEditPrint, deletePrint *)

\* the rows populatePrintFilamentsFromModel(modelName) leaves in the print form
PopulatePrintFilamentsFromModel(ms, fs, modelName) ==
    LET k == FindIndex(ms, LAMBDA m : m.name = modelName)
    IN  IF k = 0 \/ ms[k].requirements = <<>>
        THEN ClearedRows
        ELSE [i \in DOMAIN ms[k].requirements |->
                LET requirement == ms[k].requirements[i]
                IN  [select |->
                        IF /\ ~FalsyNum(requirement.filamentId)
                           /\ \E j \in DOMAIN fs : fs[j].id = requirement.filamentId
                        THEN requirement.filamentId
                        ELSE NoNum,
                     weight |-> 0]]

\* the change handler of #printModel: a model name, or <<>> for "Select Model"
SelectPrintModel(modelName) ==
    /\ modelName = <<>> \/ \E i \in DOMAIN models : models[i].name = modelName
    /\ printForm' =
         [model |-> modelName,
          rows |-> IF modelName = <<>> THEN ClearedRows
                   ELSE PopulatePrintFilamentsFromModel(models, filaments, modelName)]
    /\ saveResult' = "none"
    /\ UNCHANGED <<pageVars, filaments, models, prints, editingModelId, storage, now, grid>>

\* the rows the user can have brought the print form to before submitting: the rows
\* the form shows, each with a weight typed in or not
PrintRowChoices(rows) ==
    {[i \in DOMAIN rows |-> [rows[i] EXCEPT !.weight = weights[i]]] :
        weights \in [DOMAIN rows -> RowWeights]}

\* the text `${n}-color print`, for n < 10
NColorPrint(n) ==
    <<<<"0","1","2","3","4","5","6","7","8","9">>[n + 1]>>
        \o <<"-","c","o","l","o","r"," ","p","r","i","n","t">>

\* the filaments list addPrint collects from the rows
RECURSIVE CollectPrintFilaments(_, _)
CollectPrintFilaments(fs, rows) ==
    IF rows = <<>> THEN <<>>
    ELSE LET filamentId == Floor(Head(rows).select)
             weight == Head(rows).weight
             k == FindIndex(fs, LAMBDA f : f.id = filamentId)
         IN  (IF Head(rows).select # NoNum /\ filamentId > 0 /\ weight > 0 /\ k # 0
              THEN <<Usage(fs[k], weight)>> ELSE <<>>)
             \o CollectPrintFilaments(fs, Tail(rows))

RECURSIVE TotalWeight(_)
TotalWeight(rows) == IF rows = <<>> THEN 0 ELSE Head(rows).weight + TotalWeight(Tail(rows))

\* the PrintRecord addPrint creates at time t
NewPrint(t, modelName, date, rows, printFilaments) ==
    [id |-> 2 * t, modelName |-> modelName, weight |-> TotalWeight(rows), date |-> date,
     filaments |-> printFilaments,
     color |-> IF Len(printFilaments) = 1 THEN printFilaments[1].color
               ELSE NColorPrint(Len(printFilaments)),
     filamentId |-> NoNum, material |-> UNDEF]

\* addPrint(): the model selected in the form, the date input and the rows as the
\* user has edited them
AddPrint(date, rows, w) ==
    /\ printForm.model # <<>>
    /\ TotalWeight(rows) # 0
    /\ now < MaxNow
    /\ Len(prints) < MaxPrints
    /\ LET printFilaments == CollectPrintFilaments(filaments, rows)
           ps == Append(prints, NewPrint(now, printForm.model, date, rows, printFilaments))
           saved == SaveData(filaments, models, ps, storage, w)
       IN  /\ printFilaments # <<>>
           /\ prints' = ps
           /\ storage' = saved.storage
           /\ saveResult' = saved.result
           /\ UpdateAllTables(filaments, ClearedRows)
    /\ now' = now + 1
    /\ UNCHANGED <<pageVars, filaments, models, editingModelId>>

\* editPrint(id) followed by saveEditPrint(): colour and date as the user leaves them
SaveEditPrint(id, color, date, w) ==
    LET k == FindIndex(prints, LAMBDA q : q.id = id)
    IN  /\ k # 0
        /\ LET ps == [prints EXCEPT ![k].modelName = Trim(@), ![k].color = Trim(color),
                                    ![k].date = date]
               saved == SaveData(filaments, models, ps, storage, w)
           IN  /\ prints' = ps
               /\ storage' = saved.storage
               /\ saveResult' = saved.result
               /\ UpdateAllTables(filaments, printForm.rows)
        /\ UNCHANGED <<pageVars, filaments, models, editingModelId, now>>

\* deletePrint(id) with the dialog answered OK
DeletePrint(id, w) ==
    /\ \E i \in DOMAIN prints : prints[i].id = id
    /\ LET ps == SelectSeq(prints, LAMBDA q : q.id # id)
           saved == SaveData(filaments, models, ps, storage, w)
       IN  /\ prints' = ps
           /\ storage' = saved.storage
           /\ saveResult' = saved.result
           /\ UpdateAllTables(filaments, printForm.rows)
    /\ UNCHANGED <<pageVars, filaments, models, editingModelId, now>>

----------------------------------------------------------------------------
(* loadData on a page load, and handleImport *)

\* a collection read back by loadData: the global stays [] when the key is absent
LoadKey(item, migrate(_)) ==
    IF item = NoItem THEN <<>>
    ELSE LET stored == JSONParse(item) IN [i \in DOMAIN stored |-> migrate(stored[i])]

\* no validateField call made yet
NoValidation ==
    [fieldName |-> "", value |-> [kind |-> "undefined"], result |-> [kind |-> "undefined"]]

\* the search box empty, no timer pending: this.filterTimeout = null
IdleSearch ==
    [value |-> <<>>, filterTimeout |-> NoNum, timers |-> {}, lastTimer |-> 0, burst |-> <<>>]

\* useState of PrintForm: nothing selected, the date input on the current date, no
\* filament usage
NewReactForm ==
    [formData |-> [modelId |-> NoNum, date |-> 0, notes |-> <<>>, filamentUsages |-> <<>>],
     selectedModel |-> <<>>]

\* the page as the browser shows it first
PageIdle ==
    /\ validation = NoValidation
    /\ search = IdleSearch
    /\ inventoryConfirm = "none"
    /\ reactForm = NewReactForm

\* the page is loaded again: the globals start empty and loadData() reads the
\* mirrored keys, migrates, and calls ensureFilamentIds and updateAllTables
Reload(w) ==
    LET loaded == LoadKey(storage.filaments, MigrateFilament)
        fs == EnsureFilamentIds(loaded, now)
        ms == LoadKey(storage.models, MigrateModel)
        ps == LoadKey(storage.prints, LAMBDA q : q)
        changed == Reassigned(loaded, Len(loaded))
        saved == SaveData(fs, ms, ps, storage, w)
    IN  /\ now + changed <= MaxNow
        /\ filaments' = fs
        /\ models' = ms
        /\ prints' = ps
        /\ now' = now + changed
        /\ IF changed > 0
           THEN storage' = saved.storage /\ saveResult' = saved.result
           ELSE storage' = storage /\ saveResult' = "none"
        /\ editingModelId' = NoNum
        /\ grid' = UpdateData(NewGrid, fs)
        /\ printForm' = [model |-> <<>>, rows |-> ClearedRows]
        /\ validation' = NoValidation
        /\ search' = IdleSearch
        /\ inventoryConfirm' = "none"
        /\ reactForm' = NewReactForm

\* a Filament object of a file written before the enhanced fields existed
LegacyFilament ==
    [id |-> NoNum, brand |-> UNDEF, materialType |-> UNDEF, material |-> PETG,
     colorName |-> UNDEF, color |-> UNDEF, colorHex |-> UNDEF, diameter |-> NoNum,
     weight |-> NoNum, location |-> UNDEF, inStock |-> "undefined",
     deletionBlocked |-> "undefined"]

\* a Model of a file written before requirements carried a filamentId
LegacyModel ==
    [id |-> NoNum, name |-> VaseLower, link |-> <<>>,
     requirements |-> <<Req(NoNum, Red, PLA, UNDEF)>>]

\* a Filament object with a colour word and a 3.00 mm diameter
OddFilament == [Fil(200, Bolt, PLA, Blue, BadHex, 300, "true") EXCEPT !.material = PLA]

\* the files the user may pick: two legacy files, a file with an odd Filament, and a
\* file exportData wrote from the collections fs, ms, ps
ImportFiles(fs, ms, ps) ==
    { [filaments |-> <<LegacyFilament>>, models |-> <<>>, prints |-> <<>>],
      [filaments |-> <<>>, models |-> <<LegacyModel>>, prints |-> <<>>],
      [filaments |-> <<OddFilament>>, models |-> <<>>, prints |-> <<>>],
      [filaments |-> fs, models |-> ms, prints |-> ps] }

\* resolveFilamentId(color, material): Array.prototype.find visits the Filaments in
\* order; f.color.toLowerCase() and f.material.toLowerCase() throw a TypeError on a
\* Filament that lacks the field
RECURSIVE ResolveFilamentId(_, _, _)
ResolveFilamentId(fs, color, material) ==
    IF fs = <<>> THEN [threw |-> FALSE, id |-> NoNum]
    ELSE LET f == Head(fs)
         IN  IF f.color = UNDEF THEN [threw |-> TRUE, id |-> NoNum]
             ELSE IF Trim(ToLowerCase(f.color)) # Trim(ToLowerCase(color))
             THEN ResolveFilamentId(Tail(fs), color, material)
             ELSE IF f.material = UNDEF THEN [threw |-> TRUE, id |-> NoNum]
             ELSE IF Trim(ToLowerCase(f.material)) = Trim(ToLowerCase(material))
                     /\ f.inStock = "true"
             THEN [threw |-> FALSE, id |-> f.id]
             ELSE ResolveFilamentId(Tail(fs), color, material)

\* whether handleImport calls resolveFilamentId for the requirement r
NeedsResolve(r) == FalsyNum(r.filamentId) /\ ~Falsy(r.color) /\ ~Falsy(r.material)

\* one imported requirement as handleImport leaves it
ImportRequirement(fs, r) ==
    LET r1 == IF NeedsResolve(r)
              THEN [r EXCEPT !.filamentId = ResolveFilamentId(fs, r.color, r.material).id]
              ELSE r
    IN  MigrateRequirement(r1)

\* whether processing the imported Models throws
ImportThrows(fs, msIn) ==
    \E i \in DOMAIN msIn : \E j \in DOMAIN msIn[i].requirements :
        LET r == msIn[i].requirements[j]
        IN  NeedsResolve(r) /\ ResolveFilamentId(fs, r.color, r.material).threw

\* add mode: the imported Models whose name no Model has yet, ignoring case
RECURSIVE PushNewNames(_, _)
PushNewNames(ms, msIn) ==
    IF msIn = <<>> THEN ms
    ELSE IF \E i \in DOMAIN ms : ToLowerCase(ms[i].name) = ToLowerCase(Head(msIn).name)
    THEN PushNewNames(ms, Tail(msIn))
    ELSE PushNewNames(Append(ms, Head(msIn)), Tail(msIn))



\* how many of the first i records of s lack an id and are given one
Missing(s, i) == Cardinality({j \in 1..i : FalsyNum(s[j].id)})

\* handleImport's reader.onload on the parsed file; replace is the answer to the
\* dialog (OK = replace, Cancel = add), w1 and w2 what the setItem calls of the save
\* inside ensureFilamentIds and of the final save do
HandleImport(file, replace, w1, w2) ==
    LET hasFilaments == Len(file.filaments) > 0
        hasModels == Len(file.models) > 0
        hasPrints == Len(file.prints) > 0
        processed == [i \in DOMAIN file.filaments |->
                        [ImportFilament(file.filaments[i]) EXCEPT
                            !.id = IF @ = NoNum THEN 2 * now + 1 ELSE @]]
        pushed == IF replace THEN processed ELSE filaments \o processed
        changed == IF hasFilaments THEN Reassigned(pushed, Len(pushed)) ELSE 0
        fs == IF hasFilaments THEN EnsureFilamentIds(pushed, now) ELSE filaments
        save1 == IF changed > 0
                 THEN SaveData(fs, models, prints, storage, w1)
                 ELSE [storage |-> storage, result |-> "none"]
        t1 == now + changed
        threw == hasModels /\ ImportThrows(fs, file.models)
        msIn == [i \in DOMAIN file.models |->
                    [file.models[i] EXCEPT
                        !.id = IF FalsyNum(@) THEN 2 * (t1 + Missing(file.models, i)) + 1 ELSE @,
                        !.requirements = [j \in DOMAIN @ |-> ImportRequirement(fs, @[j])]]]
        ms == IF ~hasModels THEN models
              ELSE IF replace THEN msIn ELSE PushNewNames(models, msIn)
        t2 == t1 + Missing(file.models, Len(file.models))
        psIn == [i \in DOMAIN file.prints |->
                    [file.prints[i] EXCEPT
                        !.id = IF FalsyNum(@) THEN 2 * (t2 + Missing(file.prints, i)) + 1 ELSE @]]
        ps == IF ~hasPrints THEN prints
              ELSE IF replace THEN psIn ELSE prints \o psIn
        t3 == t2 + Missing(file.prints, Len(file.prints))
        save2 == SaveData(fs, ms, ps, save1.storage, w2)
    IN  /\ hasFilaments \/ hasModels \/ hasPrints
        /\ changed = 0 => w1 = 4
        /\ Len(fs) <= MaxFilaments /\ Len(ms) <= MaxModels /\ Len(ps) <= MaxPrints
        /\ t3 <= MaxNow
        /\ filaments' = fs
        /\ IF threw
           THEN /\ now' = t1
                /\ storage' = save1.storage
                /\ saveResult' = save1.result
                /\ UNCHANGED <<models, prints, printForm, grid>>
           ELSE /\ now' = t3
                /\ models' = ms
                /\ prints' = ps
                /\ storage' = save2.storage
                /\ saveResult' = save2.result
                /\ IF save2.result = "ok"
                   THEN UpdateAllTables(fs, printForm.rows)
                   ELSE UNCHANGED <<printForm, grid>>
        /\ UNCHANGED <<editingModelId, pageVars>>

----------------------------------------------------------------------------
(* The store: the page opened for the first time, then any handler *)

EmptyStorage ==
    [printstackData |-> NoItem, filaments |-> NoItem, models |-> NoItem, prints |-> NoItem]

Init ==
    /\ filaments = <<>>
    /\ models = <<>>
    /\ prints = <<>>
    /\ editingModelId = NoNum
    /\ storage = EmptyStorage
    /\ now = 1
    /\ printForm = [model |-> <<>>, rows |-> ClearedRows]
    /\ saveResult = "none"
    /\ PageIdle
    /\ grid = NewGrid

FilamentIds == {filaments[i].id : i \in DOMAIN filaments}

ModelIds == {models[i].id : i \in DOMAIN models}

PrintIds == {prints[i].id : i \in DOMAIN prints}

\* The store under the forms of the page that add and delete records, localStorage
\* accepting every write
Next ==
    \/ \E form \in FilamentForms, frac \in {0, 1}, merge \in BOOLEAN :
            AddFilament(form, frac, merge, AllWritten)
    \/ \E id \in FilamentIds, confirmed \in BOOLEAN : DeleteFilament(id, confirmed, AllWritten)
    \/ \E name \in ModelNames, sel \in SeqsOf(SelectableIds(filaments), 1, MaxReqs) :
            Ascending(sel) /\ AddModel(name, sel, AllWritten)
    \/ \E id \in ModelIds : DeleteModel(id, AllWritten)
    \/ \E modelName \in {<<>>} \cup {models[i].name : i \in DOMAIN models} :
            SelectPrintModel(modelName)
    \/ \E date \in PrintDates, rows \in PrintRowChoices(printForm.rows) :
            AddPrint(date, rows, AllWritten)
    \/ \E id \in PrintIds, date \in PrintDates : SaveEditPrint(id, Blue, date, AllWritten)
    \/ \E id \in PrintIds : DeletePrint(id, AllWritten)
    \/ Reload(AllWritten)

Spec == Init /\ [][Next]_vars

\* The models: the model form, the edit modal, deletion and page loads
NextModels ==
    \/ \E form \in FilamentForms, frac \in {0, 1}, merge \in BOOLEAN :
            AddFilament(form, frac, merge, AllWritten)
    \/ \E name \in ModelNames, sel \in SeqsOf(SelectableIds(filaments), 1, MaxReqs) :
            Ascending(sel) /\ AddModel(name, sel, AllWritten)
    \/ \E id \in ModelIds : EditModel(id)
    \/ CloseEditModelModal
    \/ \E name \in ModelNames, sel \in SeqsOf(SelectableIds(filaments), 0, MaxReqs) :
            Ascending(sel) /\ SaveEditModel(name, sel, AllWritten)
    \/ \E id \in ModelIds : DeleteModel(id, AllWritten)
    \/ Reload(AllWritten)

SpecModels == Init /\ [][NextModels]_vars

\* The filament inventory alone: the form, the edit modal, deletion and page loads
NextFilaments ==
    \/ \E form \in FilamentForms, frac \in {0, 1}, merge \in BOOLEAN :
            AddFilament(form, frac, merge, AllWritten)
    \/ \E id \in FilamentIds, color \in {Red, Blue}, inStock \in {"true", "false"} :
            SaveEditFilament(id, color, inStock, AllWritten)
    \/ \E id \in FilamentIds, confirmed \in BOOLEAN : DeleteFilament(id, confirmed, AllWritten)
    \/ Reload(AllWritten)

SpecFilaments == Init /\ [][NextFilaments]_vars

\* The store under imports: the filament form, deletion, page loads and handleImport
\* in both modes
NextImport ==
    \/ \E form \in FilamentForms, frac \in {0, 1}, merge \in BOOLEAN :
            AddFilament(form, frac, merge, AllWritten)
    \/ \E id \in FilamentIds, confirmed \in BOOLEAN : DeleteFilament(id, confirmed, AllWritten)
    \/ \E file \in ImportFiles(filaments, models, prints), replace \in BOOLEAN :
            HandleImport(file, replace, AllWritten, AllWritten)
    \/ Reload(AllWritten)

SpecImport == Init /\ [][NextImport]_vars

----------------------------------------------------------------------------
(* Referential integrity of deleteFilament *)

\* C1: deleteFilament never removes a Filament from the filaments collection while a
\* Model requirement or a filament-usage entry of a PrintRecord references its id,
\* whatever the dialogs are answered and however many filaments the print used; the
\* only change it may make to such a Filament is setting inStock to false together
\* with the deletionBlocked marker.  Every other Filament stays as it was.
C1_DeleteKeepsReferenced ==
    [][\A id \in FilamentIds, confirmed \in BOOLEAN :
         LET k == FindIndex(filaments, LAMBDA f : f.id = id)
             byModel == \E i \in DOMAIN models : \E j \in DOMAIN models[i].requirements :
                            models[i].requirements[j].filamentId = id
             byPrint == \E i \in DOMAIN prints : \E j \in DOMAIN prints[i].filaments :
                            prints[i].filaments[j].filamentId = id
         IN  DeleteFilament(id, confirmed, AllWritten) /\ (byModel \/ byPrint) =>
                /\ Len(filaments') = Len(filaments)
                /\ \A i \in DOMAIN filaments : i # k => filaments'[i] = filaments[i]
                /\ filaments'[k] \in
                      {filaments[k],
                       [filaments[k] EXCEPT !.inStock = "false", !.deletionBlocked = "true"]}
      ]_vars

\* C2: deleteFilament on a Filament whose id no Model requirement and no PrintRecord
\* references, once the user confirms, removes exactly that Filament from the
\* collection and leaves every other Filament, every Model and every PrintRecord
\* unchanged.
C2_DeleteRemovesUnreferenced ==
    [][\A id \in FilamentIds :
         LET byModel == \E i \in DOMAIN models : \E j \in DOMAIN models[i].requirements :
                            models[i].requirements[j].filamentId = id
             byPrint == \E i \in DOMAIN prints :
                            \/ prints[i].filamentId = id
                            \/ \E j \in DOMAIN prints[i].filaments :
                                    prints[i].filaments[j].filamentId = id
         IN  DeleteFilament(id, TRUE, AllWritten) /\ ~byModel /\ ~byPrint =>
                /\ filaments' = SelectSeq(filaments, LAMBDA f : f.id # id)
                /\ models' = models
                /\ prints' = prints
      ]_vars

----------------------------------------------------------------------------
(* The print form's auto-populate *)

\* C9: selecting a Model with N requirements while creating a print produces exactly N
\* filament-usage entries, in requirement order, each resolved by id if the Filament
\* still exists and is in stock, else by a case-insensitive (materialType, color)
\* match among the in-stock Filaments, else kept and marked unresolved.
C9_AutoPopulateResolves ==
    [][\A i \in DOMAIN models :
         LET requirements == models[FindIndex(models, LAMBDA m : m.name = models[i].name)].requirements
             inStockIds(P(_)) == {filaments[k].id : k \in {n \in DOMAIN filaments :
                                        filaments[n].inStock = "true" /\ P(filaments[n])}}
             material(r) == IF Falsy(r.materialType) THEN r.material ELSE r.materialType
             resolved(r) ==
                LET byId == inStockIds(LAMBDA f : f.id = r.filamentId)
                    byMatch == inStockIds(LAMBDA f :
                                  /\ ~Falsy(f.materialType) /\ ~Falsy(material(r))
                                  /\ ~Falsy(f.color) /\ ~Falsy(r.color)
                                  /\ ToLowerCase(f.materialType) = ToLowerCase(material(r))
                                  /\ ToLowerCase(f.color) = ToLowerCase(r.color))
                IN  IF byId # {} THEN byId ELSE IF byMatch # {} THEN byMatch ELSE {NoNum}
         IN  SelectPrintModel(models[i].name) =>
                /\ Len(printForm'.rows) = Len(requirements)
                /\ \A j \in DOMAIN requirements :
                        printForm'.rows[j].select \in resolved(requirements[j])
      ]_vars

----------------------------------------------------------------------------
(* Models *)

\* C6: saveEditModel rejects an edit that would leave the Model with zero
\* requirements, and on that rejection the Model's in-memory name, link and
\* requirements are what they were before the edit; hence a Model whose requirements
\* list was non-empty has a non-empty list in every later state, and no persisted
\* Model has an empty list.
C6_RejectedEditLeavesModel ==
    [][/\ \A name \in ModelNames, sel \in SeqsOf(SelectableIds(filaments), 0, MaxReqs) :
            /\ SaveEditModel(name, sel, AllWritten)
            /\ EditRejected(RequirementsFrom(filaments, sel, TRUE))
            => models' = models
       /\ \A i \in DOMAIN models, j \in DOMAIN models' :
            models[i].requirements # <<>> /\ models'[j].id = models[i].id
            => models'[j].requirements # <<>>
       /\ storage'.models # NoItem =>
            \A m \in Range(JSONParse(storage'.models)) : m.requirements # <<>>
      ]_vars

\* C7: in every reachable state no two Models have names that are equal ignoring
\* case.
C7_ModelNamesUnique ==
    \A i, j \in DOMAIN models :
        i # j => ToLowerCase(models[i].name) # ToLowerCase(models[j].name)

----------------------------------------------------------------------------
(* Filament validity and ids under imports *)

\* C4: in every reachable state every Filament of the in-memory collection has a
\* colorHex matching #RRGGBB and a diameter in {1.75, 2.85}.
C4_FilamentsValid ==
    \A i \in DOMAIN filaments :
        /\ MatchesHexPattern(filaments[i].colorHex)
        /\ filaments[i].diameter \in {175, 285}

\* C5: no two records of the same collection share an id, and every id a step gives
\* a record is distinct from the ids the collection already held.
C5_IdsUnique ==
    LET unique(s) == \A i, j \in DOMAIN s : i # j => s[i].id # s[j].id
    IN  unique(filaments) /\ unique(models) /\ unique(prints)

----------------------------------------------------------------------------
(* saveData on its own: any collection the forms and imports can have left in
   memory, any outcome of the storage writes *)

\* Filaments as the form makes them and as files bring them in: both diameters of the
\* form, a colour typed as a word, a 3.00 mm diameter, a legacy record
SavedFilaments ==
    { Fil(2, Acme, PLA, Red, HexRed, 175, "true"),
      Fil(4, Acme, PETG, Blue, HexGray, 285, "false"),
      Fil(6, Bolt, PLA, Blue, BadHex, 175, "true"),
      Fil(8, Bolt, PLA, Red, HexRed, 300, "true"),
      [ImportFilament(LegacyFilament) EXCEPT !.id = 10] }

InitSave ==
    /\ filaments \in SeqsOf(SavedFilaments, 0, MaxFilaments)
    /\ models = <<>>
    /\ prints = <<>>
    /\ editingModelId = NoNum
    /\ storage \in
          {EmptyStorage,
           SaveData(<<Fil(2, Acme, PLA, Red, HexRed, 175, "true")>>, <<>>, <<>>,
                    EmptyStorage, AllWritten).storage}
    /\ now = 1
    /\ printForm = [model |-> <<>>, rows |-> ClearedRows]
    /\ saveResult = "none"
    /\ PageIdle
    /\ grid = NewGrid

\* one call of saveData(), w of its setItem calls succeeding
SaveDataCall(w) ==
    LET saved == SaveData(filaments, models, prints, storage, w)
    IN  /\ storage' = saved.storage
        /\ saveResult' = saved.result
        /\ UNCHANGED <<pageVars, filaments, models, prints, editingModelId, now, printForm, grid>>

NextSave == \E w \in WriteOutcomes : SaveDataCall(w)

SpecSave == InitSave /\ [][NextSave]_vars

\* C3: saveData writes nothing to the persistent store and returns failure whenever
\* any in-memory Filament has a colorHex that does not match #RRGGBB or a diameter
\* outside {1.75, 2.85}: the envelope and the mirrored per-collection keys are exactly
\* what they were before the call.
C3_InvalidFilamentNothingWritten ==
    [][\A w \in WriteOutcomes :
         /\ SaveDataCall(w)
         /\ \E i \in DOMAIN filaments :
                \/ ~MatchesHexPattern(filaments[i].colorHex)
                \/ filaments[i].diameter \notin {175, 285}
         => storage' = storage /\ saveResult' = "refused"
      ]_vars

\* saveData has refused a collection with a colour typed as a word and every diameter
\* allowed, the store holding an earlier save
C3_RefusedOverEarlierSave ==
    /\ saveResult = "refused"
    /\ storage.printstackData # NoItem
    /\ \E i \in DOMAIN filaments : ~MatchesHexPattern(filaments[i].colorHex)
    /\ \A i \in DOMAIN filaments : filaments[i].diameter \in {175, 285}

----------------------------------------------------------------------------
(* The filament grid: FilamentTable over EnhancedDataGrid *)

MaxGridRows == 3

\* the keys of the columns the FilamentTable constructor passes
ColumnKeys == {"brand", "materialType", "color", "weight", "location", "inStock"}

\* `column.key` in the comparators of sort(): column is header.dataset.sortable, a
\* string, and a string has no property key
ColumnKey(column) == UNDEF

\* getNestedValue(obj, key): key.split('.') throws a TypeError on an undefined key
GetNestedValueThrows(key) == key = UNDEF

\* this.visibleData.sort(comparator): Array.prototype.sort calls the comparator once
\* the array has two elements, and the comparator throws on its first call, before any
\* element has moved; with fewer elements nothing is compared.  Either way the rows
\* stay as they are.
SortVisibleData(rows, column) ==
    [threw |-> Len(rows) >= 2 /\ GetNestedValueThrows(ColumnKey(column)), rows |-> rows]

\* sort(header) had it taken the direction to be ascending on every click
SortNeverToggles(column) ==
    LET sorted == SortVisibleData(grid.visibleData, column)
        marked == [grid EXCEPT !.currentSort = [column |-> column, ascending |-> TRUE]]
    IN  /\ grid' = IF sorted.threw THEN marked
                   ELSE [marked EXCEPT !.visibleData = sorted.rows, !.currentPage = 1]
        /\ UNCHANGED storeVars

\* sort(header): a click on the header of column.  The TypeError leaves the handler
\* after currentSort and the indicators are set
Sort(column) ==
    LET ascending == IF grid.currentSort.column = column
                     THEN ~grid.currentSort.ascending ELSE TRUE
        sorted == SortVisibleData(grid.visibleData, column)
        marked == [grid EXCEPT !.currentSort = [column |-> column, ascending |-> ascending]]
    IN  /\ grid' = IF sorted.threw THEN marked
                   ELSE [marked EXCEPT !.visibleData = sorted.rows, !.currentPage = 1]
        /\ UNCHANGED storeVars

\* the text FilamentTable.filterRows searches for one row
SearchableText(item) ==
    ToLowerCase(Render(item.brand) \o <<" ">> \o Render(item.materialType) \o <<" ">>
                \o Render(item.material) \o <<" ">> \o Render(item.colorName) \o <<" ">>
                \o Render(item.color) \o <<" ">> \o Render(item.location))

\* FilamentTable.filterRows(query)
FilterRows(g, query) ==
    [g EXCEPT !.visibleData =
                IF Len(query) < 2 THEN g.originalData
                ELSE SelectSeq(g.originalData,
                               LAMBDA item : Includes(SearchableText(item), query)),
              !.currentPage = 1]

\* what the user may have typed in #filamentTableSearch
SearchValues ==
    {<<>>, <<"R">>, <<"R","e">>, <<"n","d">>, <<"p","e","t">>, <<"u","n","d","e","f">>}

\* the input listener's timer firing on the value typed: filterRows of it lowercased
SearchInput(value) ==
    /\ grid' = FilterRows(grid, ToLowerCase(value))
    /\ UNCHANGED storeVars

\* the Escape key in the search box: filterRows('')
SearchEscape ==
    /\ grid' = FilterRows(grid, <<>>)
    /\ UNCHANGED storeVars

\* updateAllTables() after a handler that left the Filaments as they were
RefreshGrid ==
    /\ grid' = UpdateData(grid, filaments)
    /\ UNCHANGED storeVars

\* the Filament objects localStorage may hold when the page is opened: two made by
\* the form, one edited to another brand and shelf, one written by an earlier version
StoredFilaments ==
    { Fil(2, Acme, PLA, Red, HexRed, 175, "true"),
      Fil(4, Acme, PLA, Blue, HexRed, 175, "true"),
      [Fil(6, Bolt, PETG, Blue, HexGray, 285, "false") EXCEPT !.location = <<"B","i","n">>],
      [LegacyFilament EXCEPT !.id = 8, !.color = Red, !.weight = 250] }

\* the page opened on a stored collection: loadData, then updateAllTables
InitGrid ==
    /\ \E stored \in SeqsOf(StoredFilaments, 0, MaxGridRows) :
        /\ \A i, j \in DOMAIN stored : i # j => stored[i] # stored[j]
        /\ storage = [EmptyStorage EXCEPT !.filaments = JSONStringify(stored)]
    /\ filaments = LoadKey(storage.filaments, MigrateFilament)
    /\ models = <<>>
    /\ prints = <<>>
    /\ editingModelId = NoNum
    /\ now = 1
    /\ printForm = [model |-> <<>>, rows |-> ClearedRows]
    /\ saveResult = "none"
    /\ PageIdle
    /\ grid = UpdateData(NewGrid, filaments)

NextGrid ==
    \/ \E column \in ColumnKeys : Sort(column)
    \/ \E value \in SearchValues : SearchInput(value)
    \/ SearchEscape
    \/ RefreshGrid

SpecGrid == InitGrid /\ [][NextGrid]_vars

\* C8: filtering the filament grid with a query shorter than 2 characters makes the
\* visible rows the full unfiltered collection; with a query of 2 or more characters
\* the visible rows are exactly the Filaments for which the lowercased query is a
\* substring of the lowercased concatenation of brand, materialType, color and
\* location, a field the record lacks contributing nothing.
C8_FilterMatchesFourFields ==
    [][\A value \in SearchValues :
         LET query == ToLowerCase(value)
             text(v) == IF v = UNDEF THEN <<>> ELSE v
             four(item) == ToLowerCase(text(item.brand) \o <<" ">> \o text(item.materialType)
                                       \o <<" ">> \o text(item.color) \o <<" ">>
                                       \o text(item.location))
         IN  SearchInput(value) =>
                grid'.visibleData =
                    IF Len(query) < 2 THEN grid.originalData
                    ELSE SelectSeq(grid.originalData,
                                   LAMBDA item : Includes(four(item), query))
      ]_vars

\* C10: sorting the grid's rows by a column twice in the same direction yields the
\* same row order as sorting once; toggling the direction on the same column yields
\* exactly the reverse row order (of rows whose sort keys differ); rows with equal
\* sort keys keep their original relative order.
C10_SortIdempotentReversibleStable ==
    [][\A column \in ColumnKeys :
         LET before == grid.visibleData
             after == grid'.visibleData
         IN  Sort(column) =>
                /\ SortVisibleData(after, column).rows = after
                /\ ( /\ grid.currentSort.column = column
                     /\ \A i, j \in DOMAIN before :
                            i # j => before[i][column] # before[j][column] )
                   => after = [i \in DOMAIN before |-> before[Len(before) + 1 - i]]
                /\ \A i, j \in DOMAIN before :
                        i < j /\ before[i][column] = before[j][column] =>
                            \E m, n \in DOMAIN after :
                                m < n /\ after[m] = before[i] /\ after[n] = before[j]
      ]_vars

\* C11: clicking the header of the column that is already the sort column flips the
\* sort direction between ascending and descending; clicking the header of any other
\* column makes that column the sort column with direction ascending, whatever the
\* previous column and direction were.  Stated of every reachable grid: the click on
\* each header has that outcome.
C11_HeaderClickSetsDirection ==
    \A column \in ColumnKeys :
        ENABLED ( /\ Sort(column)
                  /\ grid'.currentSort.column = column
                  /\ grid'.currentSort.ascending =
                        IF grid.currentSort.column = column
                        THEN ~grid.currentSort.ascending ELSE TRUE )

\* a header has been clicked twice in a row on a grid of two or more rows: the
\* direction is descending
C11_DescendingOnSeveralRows ==
    /\ grid.currentSort.column \in ColumnKeys
    /\ ~grid.currentSort.ascending
    /\ Len(grid.visibleData) >= 2

----------------------------------------------------------------------------
(* Paging of the filament grid: renderTable, goToPage, changePageSize *)

\* the longest collection the grid is opened on
MaxPageRows == 101

\* the numbers of stored Filaments the grid is opened on: none, one, a full page and
\* one more of the smallest size, one more than the default size, and the longest
RowCounts == {0, 1, 10, 11, 26, MaxPageRows}

\* the options of the page-size select
PageSizes == {10, 25, 50, 100}

\* the i-th stored Filament, as the form made it
Spool(i) == Fil(2 * i, Acme, PLA, IF i % 2 = 1 THEN Red ELSE Blue, HexRed, 175, "true")

\* Math.min
Min(a, b) == IF a < b THEN a ELSE b

\* Array.prototype.slice(start, end), positions counted from 0, both clamped to the
\* length
Slice(s, start, end) ==
    LET a == Min(start, Len(s))
        b == Min(end, Len(s))
    IN  [i \in 1..(b - a) |-> s[a + i]]

\* setupPagination: Math.ceil(this.visibleData.length / this.itemsPerPage)
TotalPages(g) == (Len(g.visibleData) + g.itemsPerPage - 1) \div g.itemsPerPage

\* renderTable with the first row of the page taken one page too far
PageDataFromNextPage(g) ==
    LET startIndex == g.currentPage * g.itemsPerPage
        endIndex == Min(startIndex + g.itemsPerPage, Len(g.visibleData))
    IN  Slice(g.visibleData, startIndex, endIndex)

\* renderTable(): the rows rendered into the table body, pageData; none when the grid
\* shows the empty-state message
PageData(g) ==
    LET startIndex == (g.currentPage - 1) * g.itemsPerPage
        endIndex == Min(startIndex + g.itemsPerPage, Len(g.visibleData))
    IN  IF Len(g.visibleData) = 0 THEN <<>>
        ELSE Slice(g.visibleData, startIndex, endIndex)

\* the targets of the buttons that are enabled: First and Previous off page 1, Next and
\* Last before the last page
PageButtons(g) ==
    (IF g.currentPage # 1 THEN {1, g.currentPage - 1} ELSE {})
        \cup (IF g.currentPage < TotalPages(g) THEN {g.currentPage + 1, TotalPages(g)} ELSE {})

\* goToPage(page), from one of the enabled buttons
GoToPage(page) ==
    /\ page \in PageButtons(grid)
    /\ grid' = [grid EXCEPT !.currentPage = page]
    /\ UNCHANGED storeVars

\* changePageSize(newSize) had it kept the page the grid was on
ChangePageSizeKeepingPage(newSize) ==
    /\ TotalPages(grid) > 1
    /\ grid' = [grid EXCEPT !.itemsPerPage = newSize]
    /\ UNCHANGED storeVars

\* changePageSize(newSize): the select is rendered only when there is more than one page
ChangePageSize(newSize) ==
    /\ TotalPages(grid) > 1
    /\ grid' = [grid EXCEPT !.itemsPerPage = newSize, !.currentPage = 1]
    /\ UNCHANGED storeVars

\* the page opened on a stored collection of n Filaments
InitPages ==
    /\ \E n \in RowCounts :
            storage = [EmptyStorage EXCEPT !.filaments = JSONStringify([i \in 1..n |-> Spool(i)])]
    /\ filaments = LoadKey(storage.filaments, MigrateFilament)
    /\ models = <<>>
    /\ prints = <<>>
    /\ editingModelId = NoNum
    /\ now = 1
    /\ printForm = [model |-> <<>>, rows |-> ClearedRows]
    /\ saveResult = "none"
    /\ PageIdle
    /\ grid = UpdateData(NewGrid, filaments)

NextPages ==
    \/ \E column \in ColumnKeys : Sort(column)
    \/ \E value \in SearchValues : SearchInput(value)
    \/ SearchEscape
    \/ \E page \in 1..MaxPageRows : GoToPage(page)
    \/ \E newSize \in PageSizes : ChangePageSize(newSize)

SpecPages == InitPages /\ [][NextPages]_vars

\* C12: after every filter operation, every sort operation (including a direction
\* toggle on the same column) and every page-size change, the grid's current page is
\* 1, whatever page was shown before and however many rows are visible.
C12_PageOneAfterFilterSortResize ==
    [][( \/ \E value \in SearchValues : SearchInput(value)
         \/ SearchEscape
         \/ \E column \in ColumnKeys : Sort(column)
         \/ \E newSize \in PageSizes : ChangePageSize(newSize) )
       => grid'.currentPage = 1
      ]_vars

\* the rows of pages 1 to last, concatenated in page order
RECURSIVE PagesConcatenated(_, _)
PagesConcatenated(g, last) ==
    IF last = 0 THEN <<>>
    ELSE PagesConcatenated(g, last - 1) \o PageData([g EXCEPT !.currentPage = last])

----------------------------------------------------------------------------
(* Export and re-import *)

\* exportData(): the text of the downloaded file (exportDate and metadata, which
\* handleImport never reads, left out)
ExportData(fs, ms, ps) ==
    JSONStringify([version |-> "2.0",
                   data |-> [filaments |-> fs, models |-> ms, prints |-> ps]])

\* the three lists handleImport takes from the parsed file: those under data when the
\* file has version and data, else those at the top level; a missing list is []
ParseImport(text) ==
    LET importData == JSONParse(text)
        list(o, key) == IF key \in DOMAIN o THEN o[key] ELSE <<>>
        from == IF "version" \in DOMAIN importData /\ "data" \in DOMAIN importData
                THEN importData.data ELSE importData
    IN  [filaments |-> list(from, "filaments"), models |-> list(from, "models"),
         prints |-> list(from, "prints")]

\* the user exports the store and imports the downloaded file again, answering OK
\* (replace)
ExportThenImport(replace) ==
    HandleImport(ParseImport(ExportData(filaments, models, prints)), replace,
                 AllWritten, AllWritten)

\* The store under the forms and the edit modal of models, with exports imported again
NextRoundTrip ==
    \/ \E form \in FilamentForms, frac \in {0, 1}, merge \in BOOLEAN :
            AddFilament(form, frac, merge, AllWritten)
    \/ \E name \in ModelNames, sel \in SeqsOf(SelectableIds(filaments), 1, MaxReqs) :
            Ascending(sel) /\ AddModel(name, sel, AllWritten)
    \/ \E id \in ModelIds : EditModel(id)
    \/ \E name \in {Vase}, sel \in SeqsOf(SelectableIds(filaments), 0, MaxReqs) :
            Ascending(sel) /\ SaveEditModel(name, sel, AllWritten)
    \/ \E modelName \in {models[i].name : i \in DOMAIN models} : SelectPrintModel(modelName)
    \/ \E rows \in PrintRowChoices(printForm.rows) : AddPrint(0, rows, AllWritten)
    \/ ExportThenImport(TRUE)

SpecRoundTrip == Init /\ [][NextRoundTrip]_vars

\* C14: exporting the full state and re-importing the exported file in replace mode
\* yields filaments, models and prints collections identical to the exported ones
\* (record ids aside), for every reachable state of the three collections.
C14_ExportImportRoundTrip ==
    [][LET asideIds(s) == [i \in DOMAIN s |-> [s[i] EXCEPT !.id = 0]]
       IN  ExportThenImport(TRUE) =>
              /\ asideIds(filaments') = asideIds(filaments)
              /\ asideIds(models') = asideIds(models)
              /\ asideIds(prints') = asideIds(prints)
      ]_vars

----------------------------------------------------------------------------
(* Defaults of imported Filaments *)

\* C15: handleImport never rejects a Filament record for missing fields and defaults
\* them to the same values loadData's migration gives: every Filament of the file is
\* in the collection after the import, in the file's order after the Filaments kept,
\* with the materialType, colorHex, diameter and inStock the migration would give it;
\* so the legacy record {material: "PETG"} is left with materialType "PETG", colorHex
\* "#cccccc", diameter 1.75 and inStock true.
C15_ImportDefaultsLikeMigration ==
    [][\A file \in ImportFiles(filaments, models, prints), replace \in BOOLEAN :
         HandleImport(file, replace, AllWritten, AllWritten) /\ file.filaments # <<>> =>
            LET kept == IF replace THEN 0 ELSE Len(filaments)
            IN  /\ Len(filaments') = kept + Len(file.filaments)
                /\ \A i \in DOMAIN file.filaments :
                        LET got == filaments'[kept + i]
                            want == MigrateFilament(file.filaments[i])
                        IN  /\ got.materialType = want.materialType
                            /\ got.colorHex = want.colorHex
                            /\ got.diameter = want.diameter
                            /\ got.inStock = want.inStock
      ]_vars

----------------------------------------------------------------------------
(* loadData on stored texts the application did not write itself *)

\* a stored text that is not JSON
Malformed == <<"text", <<"{">>>>

\* whether JSON.parse(item) returns; it throws a SyntaxError otherwise
Parses(item) == item # NoItem /\ item[1] = "json"

\* a null where a record is expected; reading a property of it throws a TypeError
NullRecord == [null |-> TRUE]

IsNull(r) == r = NullRecord

\* collections as localStorage may hold them: records of an earlier version, a null
\* among them
StoredFilamentLists ==
    SeqsOf({Fil(2, Acme, PLA, Red, HexRed, 175, "true"),
            [LegacyFilament EXCEPT !.id = 8, !.color = Red, !.weight = 250],
            NullRecord}, 1, 2)

StoredModel ==
    [id |-> 20, name |-> Vase, link |-> <<>>, requirements |-> <<Req(2, Red, PLA, UNDEF)>>]

StoredModelLists == SeqsOf({StoredModel, NullRecord}, 1, 2)

StoredPrint ==
    [id |-> 30, modelName |-> Vase, weight |-> 20, date |-> 0,
     filaments |-> <<Usage(Fil(2, Acme, PLA, Red, HexRed, 175, "true"), 20)>>,
     color |-> Red, filamentId |-> NoNum, material |-> UNDEF]

\* the page before loadData runs, on any of the stored texts
InitLoad ==
    /\ filaments = <<>>
    /\ models = <<>>
    /\ prints = <<>>
    /\ editingModelId = NoNum
    /\ \E f \in {NoItem, Malformed} \cup {JSONStringify(s) : s \in StoredFilamentLists},
          m \in {NoItem, Malformed} \cup {JSONStringify(s) : s \in StoredModelLists},
          p \in {NoItem, Malformed, JSONStringify(<<StoredPrint>>)} :
            storage = [printstackData |-> NoItem, filaments |-> f, models |-> m, prints |-> p]
    /\ now = 1
    /\ printForm = [model |-> <<>>, rows |-> ClearedRows]
    /\ saveResult = "none"
    /\ PageIdle
    /\ grid = NewGrid

\* a parsed list whose elements before position k (all of them when k = 0) have been
\* through the migration ms[i]; the loop mutates the stored objects in place and the
\* TypeError at position k leaves the later ones as they were stored
MigratedBefore(raw, migrated, k) ==
    [i \in DOMAIN raw |-> IF k = 0 \/ i < k THEN migrated[i] ELSE raw[i]]

\* loadData() on a newly opened page.  One try block holds the three reads: the first
\* SyntaxError or TypeError ends it, and what follows it in the block is skipped.
\* ensureFilamentIds then runs outside the block; its TypeError on a null Filament
\* leaves loadData before updateAllTables.
LoadData(w) ==
    LET fRead == Parses(storage.filaments)
        fRaw == IF fRead THEN JSONParse(storage.filaments) ELSE <<>>
        fNull == FindIndex(fRaw, IsNull)
        fs1 == MigratedBefore(fRaw, [i \in DOMAIN fRaw |->
                                        IF IsNull(fRaw[i]) THEN fRaw[i]
                                        ELSE MigrateFilament(fRaw[i])], fNull)
        threw1 == storage.filaments = Malformed \/ fNull # 0
        mRead == ~threw1 /\ Parses(storage.models)
        mRaw == IF mRead THEN JSONParse(storage.models) ELSE <<>>
        mNull == FindIndex(mRaw, IsNull)
        ms == MigratedBefore(mRaw, [i \in DOMAIN mRaw |->
                                       IF IsNull(mRaw[i]) THEN mRaw[i]
                                       ELSE MigrateModel(mRaw[i])], mNull)
        threw2 == threw1 \/ storage.models = Malformed \/ mNull # 0
        ps == IF ~threw2 /\ Parses(storage.prints) THEN JSONParse(storage.prints) ELSE <<>>
        checked == IF fNull = 0 THEN fs1 ELSE SubSeq(fs1, 1, fNull - 1)
        changed == Reassigned(checked, Len(checked))
        fs == EnsureFilamentIds(checked, now) \o SubSeq(fs1, Len(checked) + 1, Len(fs1))
        saved == SaveData(fs, ms, ps, storage, w)
    IN  /\ now + changed <= MaxNow
        /\ filaments' = fs
        /\ models' = ms
        /\ prints' = ps
        /\ now' = now + changed
        /\ editingModelId' = NoNum
        /\ UNCHANGED pageVars
        /\ IF fNull # 0
           THEN UNCHANGED <<pageVars, storage, saveResult, grid, printForm>>
           ELSE /\ IF changed > 0
                   THEN storage' = saved.storage /\ saveResult' = saved.result
                   ELSE storage' = storage /\ saveResult' = "none"
                /\ grid' = UpdateData(NewGrid, fs)
                /\ printForm' = [model |-> <<>>, rows |-> ClearedRows]

NextLoad == LoadData(AllWritten)

SpecLoad == InitLoad /\ [][NextLoad]_vars

\* C16: loadData never abandons the load because of a single malformed record or a
\* single malformed stored collection: every other stored record of all three
\* collections is still loaded, with a missing materialType taken from the legacy
\* material field, a missing colorHex set to "#cccccc", a missing diameter set to 1.75
\* and a missing inStock set to true.
C16_LoadSkipsOnlyTheMalformed ==
    [][LoadData(AllWritten) =>
         LET wellFormed(item) ==
                IF Parses(item) THEN SelectSeq(JSONParse(item), LAMBDA r : ~IsNull(r))
                ELSE <<>>
             fStored == wellFormed(storage.filaments)
             mStored == wellFormed(storage.models)
             pStored == wellFormed(storage.prints)
         IN  /\ SelectSeq(filaments', LAMBDA r : ~IsNull(r)) =
                    [i \in DOMAIN fStored |-> MigrateFilament(fStored[i])]
             /\ SelectSeq(models', LAMBDA r : ~IsNull(r)) =
                    [i \in DOMAIN mStored |-> MigrateModel(mStored[i])]
             /\ SelectSeq(prints', LAMBDA r : ~IsNull(r)) = pStored
      ]_vars

----------------------------------------------------------------------------
(* handleImport on the text of the chosen file *)

\* the texts of the files the user may pick: one that is not JSON, a JSON object with
\* none of the three lists, a backup of an earlier version carrying a Filament and a
\* Model, and the file exportData writes from the collections fs, ms, ps
ImportTexts(fs, ms, ps) ==
    { Malformed,
      JSONStringify([settings |-> <<>>]),
      JSONStringify([filaments |-> <<LegacyFilament>>, models |-> <<LegacyModel>>]),
      ExportData(fs, ms, ps) }

\* reader.onload of handleImport on the file's text; replace is the answer to the
\* dialog.  A SyntaxError of JSON.parse is caught and announced, and a file with none
\* of the lists is announced before the dialog: both leave everything as it was
ImportFile(text, replace) ==
    IF ~Parses(text) THEN UNCHANGED vars
    ELSE LET file == ParseImport(text)
         IN  IF file.filaments = <<>> /\ file.models = <<>> /\ file.prints = <<>>
             THEN UNCHANGED vars
             ELSE HandleImport(file, replace, AllWritten, AllWritten)

\* The store under imports of any file, the filament form and page loads
NextImportFiles ==
    \/ \E form \in FilamentForms, frac \in {0, 1}, merge \in BOOLEAN :
            AddFilament(form, frac, merge, AllWritten)
    \/ \E text \in ImportTexts(filaments, models, prints), replace \in BOOLEAN :
            ImportFile(text, replace)
    \/ Reload(AllWritten)

SpecImportFiles == Init /\ [][NextImportFiles]_vars

\* C17: an import of a file that is not parseable JSON or contains no recognized
\* collections leaves the in-memory filaments, models and prints and the persisted
\* state all unchanged, and no import ever stops after having changed only some of
\* the collections: after an import either no collection has changed or every
\* collection the file carries has been imported (in replace mode it has the file's
\* records, in add mode the file's records after the ones kept, a Model whose name
\* exists aside).
C17_NoPartialImport ==
    [][\A text \in ImportTexts(filaments, models, prints), replace \in BOOLEAN :
         ImportFile(text, replace) =>
            LET file == IF Parses(text) THEN ParseImport(text)
                        ELSE [filaments |-> <<>>, models |-> <<>>, prints |-> <<>>]
                kept(s) == IF replace THEN 0 ELSE Len(s)
                named(ms, m) == \E i \in DOMAIN ms :
                                    ToLowerCase(ms[i].name) = ToLowerCase(m.name)
                nothing == filaments' = filaments /\ models' = models /\ prints' = prints
                all == /\ file.filaments # <<>> =>
                            Len(filaments') = kept(filaments) + Len(file.filaments)
                       /\ file.models # <<>> =>
                            /\ \A i \in DOMAIN file.models : named(models', file.models[i])
                            /\ replace => Len(models') = Len(file.models)
                       /\ file.prints # <<>> =>
                            Len(prints') = kept(prints) + Len(file.prints)
            IN  /\ file.filaments = <<>> /\ file.models = <<>> /\ file.prints = <<>>
                    => nothing /\ storage' = storage
                /\ nothing \/ all
      ]_vars

----------------------------------------------------------------------------
(* Field validation: ValidationRules and validateField                     *)
(*                                                                         *)
(* A value handed to validateField is a record tagged with its JavaScript  *)
(* type: [kind |-> "string", text], [kind |-> "number", n] with n in       *)
(* hundredths, [kind |-> "NaN"], [kind |-> "undefined"], or the object     *)
(* validateForm builds for a temperature field, [kind |-> "object", min,   *)
(* max].  A result is [valid |-> TRUE] or [valid |-> FALSE, message].      *)

Str(text) == [kind |-> "string", text |-> text]

Num(n) == [kind |-> "number", n |-> n]

NaN == [kind |-> "NaN"]

Undefined == [kind |-> "undefined"]

TempObj(min, max) == [kind |-> "object", min |-> min, max |-> max]

Valid == [valid |-> TRUE]

Failure(message) == [valid |-> FALSE, message |-> message]

DecimalDigits == <<"0","1","2","3","4","5","6","7","8","9">>

IsDigit(c) == \E d \in DOMAIN DecimalDigits : DecimalDigits[d] = c

DigitValue(c) == (CHOOSE d \in DOMAIN DecimalDigits : DecimalDigits[d] = c) - 1

\* the number of decimal digits of s from position i on
RECURSIVE DigitRun(_, _)
DigitRun(s, i) == IF i <= Len(s) /\ IsDigit(s[i]) THEN 1 + DigitRun(s, i + 1) ELSE 0

\* the number the n digits of s from position i on spell
RECURSIVE DigitsValue(_, _, _)
DigitsValue(s, i, n) ==
    IF n = 0 THEN 0 ELSE 10 * DigitsValue(s, i, n - 1) + DigitValue(s[i + n - 1])

\* the first position of s from i on that holds no blank
RECURSIVE SkipBlanks(_, _)
SkipBlanks(s, i) == IF i <= Len(s) /\ s[i] = " " THEN SkipBlanks(s, i + 1) ELSE i

\* parseFloat(value): blanks, a sign, digits, a point and digits; what follows is
\* ignored; NaN when no digit is read.  The number is kept to its hundredths.
ParseFloat(value) ==
    IF value.kind = "number" THEN value
    ELSE IF value.kind # "string" THEN NaN
    ELSE LET s == value.text
             start == SkipBlanks(s, 1)
             signed == start <= Len(s) /\ s[start] \in {"-", "+"}
             p == IF signed THEN start + 1 ELSE start
             ni == DigitRun(s, p)
             dotted == p + ni <= Len(s) /\ s[p + ni] = "."
             nf == IF dotted THEN DigitRun(s, p + ni + 1) ELSE 0
             hundredths == IF nf = 0 THEN 0
                           ELSE IF nf = 1 THEN 10 * DigitValue(s[p + ni + 1])
                           ELSE DigitsValue(s, p + ni + 1, 2)
             magnitude == 100 * DigitsValue(s, p, ni) + hundredths
         IN  IF ni + nf = 0 THEN NaN
             ELSE Num(IF signed /\ s[start] = "-" THEN 0 - magnitude ELSE magnitude)

\* parseInt(text): blanks, a sign, digits; NaN when no digit is read, and for undefined
ParseInt(s) ==
    IF s = UNDEF THEN NaN
    ELSE LET start == SkipBlanks(s, 1)
             signed == start <= Len(s) /\ s[start] \in {"-", "+"}
             p == IF signed THEN start + 1 ELSE start
             ni == DigitRun(s, p)
         IN  IF ni = 0 THEN NaN
             ELSE Num(IF signed /\ s[start] = "-" THEN 0 - DigitsValue(s, p, ni)
                      ELSE DigitsValue(s, p, ni))

\* /^[a-zA-Z0-9\s\-&.,]+$/.test(text)
MatchesBrandPattern(s) ==
    /\ Len(s) >= 1
    /\ \A i \in DOMAIN s :
            \/ \E k \in DOMAIN Upper : s[i] = Upper[k] \/ s[i] = Lower[k]
            \/ IsDigit(s[i])
            \/ s[i] \in {" ", "-", "&", ".", ","}

\* the validate function of the temperature rule, on tempObj: a string has no min and
\* no max, and a comparison with NaN is false
ValidateTemperature(tempObj) ==
    LET min == ParseInt(IF tempObj.kind = "object" THEN tempObj.min ELSE UNDEF)
        max == ParseInt(IF tempObj.kind = "object" THEN tempObj.max ELSE UNDEF)
    IN  /\ min.kind = "number" /\ max.kind = "number"
        /\ min.n >= 150 /\ max.n <= 350 /\ max.n > min.n

\* a rule of ValidationRules: an option a rule may leave out is the set of its values,
\* numbers in hundredths
NoRule ==
    [required |-> FALSE, optional |-> FALSE, type |-> "", min |-> {}, max |-> {},
     minLength |-> {}, maxLength |-> {}, pattern |-> "", allowed |-> "",
     customAllowed |-> FALSE, validate |-> FALSE, message |-> ""]

FieldNames ==
    {"brand", "materialType", "colorName", "colorHex", "weight", "diameter",
     "purchasePrice", "location", "temperature"}

ValidationRules(fieldName) ==
    CASE fieldName = "brand" ->
            [NoRule EXCEPT !.required = TRUE, !.minLength = {2}, !.maxLength = {100},
                           !.pattern = "brand", !.message = "Brand must be 2-100 characters"]
      [] fieldName = "materialType" ->
            [NoRule EXCEPT !.required = TRUE, !.allowed = "getMaterialTypes",
                           !.customAllowed = TRUE, !.message = "Material type is required"]
      [] fieldName = "colorName" ->
            [NoRule EXCEPT !.required = TRUE, !.minLength = {2}, !.maxLength = {50},
                           !.message = "Color name must be 2-50 characters"]
      [] fieldName = "colorHex" ->
            [NoRule EXCEPT !.required = TRUE, !.pattern = "hex",
                           !.message = "Color code must be valid HEX format (#RRGGBB)"]
      [] fieldName = "weight" ->
            [NoRule EXCEPT !.required = TRUE, !.min = {10}, !.max = {1000000},
                           !.type = "number",
                           !.message = "Weight must be between 0.1g and 10,000g"]
      [] fieldName = "diameter" ->
            [NoRule EXCEPT !.required = TRUE, !.type = "number", !.allowed = "diameters",
                           !.message = "Diameter must be 1.75mm or 2.85mm"]
      [] fieldName = "purchasePrice" ->
            [NoRule EXCEPT !.optional = TRUE, !.min = {0}, !.max = {100000},
                           !.type = "number",
                           !.message = "Price must be between $0 and $1000 per kg"]
      [] fieldName = "location" ->
            [NoRule EXCEPT !.optional = TRUE, !.maxLength = {200},
                           !.message = "Location must be 200 characters or less"]
      [] fieldName = "temperature" ->
            [NoRule EXCEPT !.optional = TRUE, !.validate = TRUE,
                           !.message = "Temperature range must be 150-350 with max > min"]

\* !value || value === ''
Empty(value) ==
    \/ value.kind \in {"undefined", "NaN"}
    \/ value.kind = "string" /\ value.text = <<>>
    \/ value.kind = "number" /\ value.n = 0

\* validateFieldType(value, rule, fieldName): the number, the value as it came, or
\* the failure
ValidateFieldType(value, rule, fieldName) ==
    IF rule.type = "number" /\ value # Str(<<>>)
    THEN LET num == ParseFloat(value)
         IN  IF num = NaN THEN Failure(<<fieldName, "must be a number">>) ELSE num
    ELSE value

\* validateFieldRange(value, rule, fieldName); every rule with a min or a max has
\* type number, so the value compared is the number of the type stage
ValidateFieldRange(value, rule, fieldName) ==
    IF \E min \in rule.min : value.kind = "number" /\ value.n < min
    THEN Failure(<<rule.message>>)
    ELSE IF \E max \in rule.max : value.kind = "number" /\ value.n > max
    THEN Failure(<<rule.message>>)
    ELSE Valid

\* validateFieldLength(value, rule, fieldName); every rule with a length has no type,
\* so the value measured is the string that came
ValidateFieldLength(value, rule, fieldName) ==
    IF \E minLength \in rule.minLength : value.kind = "string" /\ Len(value.text) < minLength
    THEN Failure(<<rule.message>>)
    ELSE IF \E maxLength \in rule.maxLength :
                value.kind = "string" /\ Len(value.text) > maxLength
    THEN Failure(<<rule.message>>)
    ELSE Valid

\* validateFieldPattern(value, rule, fieldName)
ValidateFieldPattern(value, rule, fieldName) ==
    IF \/ rule.pattern = "brand" /\ ~(value.kind = "string" /\ MatchesBrandPattern(value.text))
       \/ rule.pattern = "hex" /\ ~(value.kind = "string" /\ MatchesHexPattern(value.text))
    THEN Failure(<<rule.message>>)
    ELSE Valid

\* allowedValues.includes(value): the array [1.75, 2.85], or what getMaterialTypes()
\* returns
IncludesAllowed(allowed, value) ==
    IF allowed = "diameters" THEN value.kind = "number" /\ AllowedDiameter(value.n)
    ELSE value.kind = "string" /\ value.text \in MaterialTypes

\* validateFieldAllowed(value, rule, fieldName)
ValidateFieldAllowed(value, rule, fieldName) ==
    IF rule.allowed # "" /\ ~IncludesAllowed(rule.allowed, value)
    THEN IF rule.customAllowed /\ value = Str(<<"O","t","h","e","r">>)
         THEN Valid ELSE Failure(<<rule.message>>)
    ELSE Valid

\* typeof value === 'object' && !value.valid, of what validateFieldType returned: a
\* failure, or an object that came in and has no property valid
ObjectNotValid(value) ==
    \/ "valid" \in DOMAIN value /\ ~value.valid
    \/ "kind" \in DOMAIN value /\ value.kind = "object"

\* validateField(fieldName, value)
ValidateField(fieldName, value) ==
    IF fieldName \notin FieldNames THEN Valid
    ELSE LET rule == ValidationRules(fieldName)
             typed == ValidateFieldType(value, rule, fieldName)
         IN  IF rule.optional /\ Empty(value) THEN Valid
             ELSE IF rule.required /\ Empty(value)
             THEN Failure(<<fieldName, "is required">>)
             ELSE IF ObjectNotValid(typed) THEN typed
             ELSE IF ~ValidateFieldRange(typed, rule, fieldName).valid
             THEN ValidateFieldRange(typed, rule, fieldName)
             ELSE IF ~ValidateFieldLength(typed, rule, fieldName).valid
             THEN ValidateFieldLength(typed, rule, fieldName)
             ELSE IF ~ValidateFieldPattern(typed, rule, fieldName).valid
             THEN ValidateFieldPattern(typed, rule, fieldName)
             ELSE IF ~ValidateFieldAllowed(typed, rule, fieldName).valid
             THEN ValidateFieldAllowed(typed, rule, fieldName)
             ELSE IF rule.validate /\ ~ValidateTemperature(typed)
             THEN Failure(<<rule.message>>)
             ELSE Valid

\* a text of n letters a
Letters(n) == [i \in 1..n |-> "a"]

\* input.value of the inputs and selects of the filament forms
FieldTexts ==
    {Str(t) : t \in {<<>>, <<"1",".","7","5">>, <<"2",".","8","5">>, <<"3",".","0","0">>,
                     <<"0",".","0","5">>, <<"5","0","0">>, <<"2","0","0","0","0">>,
                     <<"-","5">>, <<"a","b","c">>, <<"A">>, Acme, <<"A","c","!">>,
                     HexRed, PLA, <<"O","t","h","e","r">>, <<"N","y","l","o","n">>,
                     Letters(51), Letters(101), Letters(201)}}

\* the object validateForm builds from the two temperature inputs
TempObjs ==
    {TempObj(<<"2","0","0">>, <<"2","2","0">>), TempObj(<<"1","0","0">>, <<"9","0">>),
     TempObj(<<"2","0","0">>, <<"4","0","0">>), TempObj(<<>>, <<>>)}

\* the value validateForm hands to validateField for a field: the object when
\* fieldName.includes('temp'), the text of the input otherwise
FieldValues(fieldName) ==
    IF fieldName = "temperature" THEN TempObjs ELSE FieldTexts

\* a field of a form is validated: validateField(fieldName, value), the field a rule
\* names or, as inStock, none
ValidateFieldCall(fieldName, value) ==
    /\ validation' = [fieldName |-> fieldName, value |-> value,
                      result |-> ValidateField(fieldName, value)]
    /\ UNCHANGED <<filaments, models, prints, editingModelId, storage, now, printForm,
                   saveResult, grid, search, inventoryConfirm, reactForm>>

NextValidate ==
    \E fieldName \in FieldNames \cup {"inStock"} :
        \E value \in FieldValues(fieldName) : ValidateFieldCall(fieldName, value)

SpecValidate == Init /\ [][NextValidate]_vars

\* the results of the seven stages on a value, in the order presence, type, range,
\* length, pattern, allowed values, custom predicate, the later five on the value the
\* type stage coerced
StageResults(fieldName, value) ==
    LET rule == ValidationRules(fieldName)
        typed == ValidateFieldType(value, rule, fieldName)
        coerced == IF "valid" \in DOMAIN typed THEN NaN ELSE typed
    IN  << IF rule.required /\ Empty(value)
           THEN Failure(<<fieldName, "is required">>) ELSE Valid,
           IF "valid" \in DOMAIN typed THEN typed ELSE Valid,
           ValidateFieldRange(coerced, rule, fieldName),
           ValidateFieldLength(coerced, rule, fieldName),
           ValidateFieldPattern(coerced, rule, fieldName),
           ValidateFieldAllowed(coerced, rule, fieldName),
           IF rule.validate /\ ~ValidateTemperature(coerced)
           THEN Failure(<<rule.message>>) ELSE Valid >>

\* C18: validateField evaluates presence, type coercion, range, length, pattern,
\* allowed values and custom predicate in that order: on a field with a rule whose value
\* is not an optional one left empty, the result is the failure of the first stage that
\* fails, and {valid: true} exactly when every stage passes; the select strings "1.75"
\* and "2.85" pass the diameter rule.
C18_FirstFailingStageDecides ==
    /\ validation.fieldName \in FieldNames
            /\ ~(ValidationRules(validation.fieldName).optional /\ Empty(validation.value))
       => LET stages == StageResults(validation.fieldName, validation.value)
              failing == {k \in DOMAIN stages : ~stages[k].valid}
          IN  validation.result =
                IF failing = {} THEN Valid
                ELSE stages[CHOOSE k \in failing : \A j \in failing : k <= j]
    /\ validation.fieldName = "diameter"
            /\ validation.value \in {Str(<<"1",".","7","5">>), Str(<<"2",".","8","5">>)}
       => validation.result = Valid

----------------------------------------------------------------------------
(* The search box of the filament grid: the debounce of setupSearch        *)
(*                                                                         *)
(* search.timers are the timeouts the browser holds pending, each with the *)
(* time it is due; search.burst lists the times of the input events since  *)
(* the last re-filter a timer made.                                        *)

MaxSearchTime == 1000

MaxBurst == 3

MaxTimers == 10

DebounceDelay == 300

\* the input listener had it scheduled the re-filter without clearTimeout
InputListenerWithoutClear(s) ==
    [s EXCEPT !.filterTimeout = s.lastTimer + 1,
              !.lastTimer = s.lastTimer + 1,
              !.timers = s.timers \cup {[id |-> s.lastTimer + 1, due |-> now + DebounceDelay]}]

\* one input listener of setupSearch: clearTimeout(this.filterTimeout), then
\* this.filterTimeout = setTimeout(..., 300)
InputListener(s) ==
    [s EXCEPT !.filterTimeout = s.lastTimer + 1,
              !.lastTimer = s.lastTimer + 1,
              !.timers = {t \in s.timers : t.id # s.filterTimeout}
                            \cup {[id |-> s.lastTimer + 1, due |-> now + DebounceDelay]}]

\* a keystroke changes the text of the search box to value: the input event runs the
\* listener the constructor's init() added and the one the init() of the first
\* updateData added, both on the same grid
Keystroke(value) ==
    /\ value # search.value
    /\ Len(search.burst) < MaxBurst
    /\ search.lastTimer + 2 <= MaxTimers
    /\ search' = InputListener(InputListener(
                    [search EXCEPT !.value = value, !.burst = Append(@, now)]))
    /\ UNCHANGED <<filaments, models, prints, editingModelId, storage, now, printForm,
                   saveResult, grid, validation, inventoryConfirm, reactForm>>

\* a pending timer is due: its callback runs filterRows(e.target.value.toLowerCase())
\* on the text the box holds now
TimerFires ==
    \E t \in search.timers :
        /\ t.due <= now
        /\ grid' = FilterRows(grid, ToLowerCase(search.value))
        /\ search' = [search EXCEPT !.timers = @ \ {t}, !.burst = <<>>]
        /\ UNCHANGED <<filaments, models, prints, editingModelId, storage, now, printForm,
                       saveResult, validation, inventoryConfirm, reactForm>>

\* the Escape key in the search box: the keydown listeners empty the box and call
\* filterRows(''); a pending timer stays pending
EscapeKey ==
    /\ grid' = FilterRows(grid, <<>>)
    /\ search' = [search EXCEPT !.value = <<>>]
    /\ UNCHANGED <<filaments, models, prints, editingModelId, storage, now, printForm,
                   saveResult, validation, inventoryConfirm, reactForm>>

\* d milliseconds pass with no event; a timer runs when it is due, not later
Tick(d) ==
    /\ now + d <= MaxSearchTime
    /\ \A t \in search.timers : now + d <= t.due
    /\ now' = now + d
    /\ UNCHANGED <<filaments, models, prints, editingModelId, storage, printForm,
                   saveResult, grid, validation, search, inventoryConfirm, reactForm>>

\* the page opened on three stored Filaments
InitSearch ==
    /\ storage = [EmptyStorage EXCEPT !.filaments =
                    JSONStringify(<<Fil(2, Acme, PLA, Red, HexRed, 175, "true"),
                                    Fil(4, Acme, PLA, Blue, HexRed, 175, "true"),
                                    [LegacyFilament EXCEPT !.id = 8, !.color = Red,
                                                           !.weight = 250]>>)]
    /\ filaments = LoadKey(storage.filaments, MigrateFilament)
    /\ models = <<>>
    /\ prints = <<>>
    /\ editingModelId = NoNum
    /\ now = 1
    /\ printForm = [model |-> <<>>, rows |-> ClearedRows]
    /\ saveResult = "none"
    /\ PageIdle
    /\ grid = UpdateData(NewGrid, filaments)

NextSearch ==
    \/ \E value \in SearchValues : Keystroke(value)
    \/ TimerFires
    \/ EscapeKey
    \/ \E d \in {100, 300} : Tick(d)

SpecSearch == InitSearch /\ [][NextSearch]_vars

\* C19: keystrokes in the search box are coalesced.  While input events have arrived
\* since the last timed re-filter exactly one timer is pending, the one the last
\* listener scheduled, due 300 ms after the last keystroke, and none is pending
\* otherwise; the timer that runs re-filters the grid once with the text the box holds
\* then and ends the burst.
C19_KeystrokesCoalesced ==
    /\ [](IF search.burst = <<>> THEN search.timers = {}
          ELSE search.timers = {[id |-> search.filterTimeout,
                                 due |-> search.burst[Len(search.burst)] + DebounceDelay]})
    /\ [][search'.timers \subseteq search.timers /\ search'.timers # search.timers
            => /\ grid' = FilterRows(grid, ToLowerCase(search.value))
               /\ search'.timers = {}
               /\ search'.burst = <<>>
               /\ now = search.burst[Len(search.burst)] + DebounceDelay
         ]_vars

\* a burst of three keystrokes at three different times, one timer pending for it
C19_BurstOfThreePending ==
    /\ Len(search.burst) = 3
    /\ search.burst[1] < search.burst[2] /\ search.burst[2] < search.burst[3]
    /\ Cardinality(search.timers) = 1

----------------------------------------------------------------------------
(* Inventory: preventNegativeInventory and checkAndPreventNegativeInventory *)

\* getFilamentUsage(color): the weights of the prints whose color is color, ignoring
\* case
RECURSIVE GetFilamentUsage(_, _)
GetFilamentUsage(ps, color) ==
    IF ps = <<>> THEN 0
    ELSE (IF ToLowerCase(Head(ps).color) = ToLowerCase(color) THEN Head(ps).weight ELSE 0)
         + GetFilamentUsage(Tail(ps), color)

\* preventNegativeInventory(filamentId, weightToUse); `return false` for an id no
\* Filament has is a result whose canConsume is not true
PreventNegativeInventory(filamentId, weightToUse) ==
    LET k == FindIndex(filaments, LAMBDA f : f.id = filamentId)
        availableWeight == filaments[k].weight - GetFilamentUsage(prints, filaments[k].color)
    IN  IF k = 0 THEN [canConsume |-> FALSE, available |-> 0, shortage |-> 0]
        ELSE IF availableWeight < weightToUse
        THEN [canConsume |-> FALSE, available |-> availableWeight,
              shortage |-> weightToUse - availableWeight]
        ELSE [canConsume |-> TRUE, available |-> availableWeight, shortage |-> 0]

\* checkAndPreventNegativeInventory(filamentId, weightToUse, allowOverride), the
\* confirm() answered shouldOverride: TRUE when the usage may be recorded.  No handler
\* of the page calls it.
CheckAndPreventNegativeInventory(filamentId, weightToUse, allowOverride, shouldOverride) ==
    LET check == PreventNegativeInventory(filamentId, weightToUse)
    IN  check.canConsume \/ allowOverride \/ shouldOverride

\* the rows of the print form with weights that can exceed what a spool holds
HeavyRowChoices(rows) ==
    {[i \in DOMAIN rows |-> [rows[i] EXCEPT !.weight = weights[i]]] :
        weights \in [DOMAIN rows -> {0, 300, 600}]}

\* the page with the filament, model and print forms, prints as heavy as a spool
NextInventory ==
    \/ \E form \in FilamentForms, frac \in {0, 1}, merge \in BOOLEAN :
            AddFilament(form, frac, merge, AllWritten)
    \/ \E name \in ModelNames, sel \in SeqsOf(SelectableIds(filaments), 1, MaxReqs) :
            Ascending(sel) /\ AddModel(name, sel, AllWritten)
    \/ \E modelName \in {<<>>} \cup {models[i].name : i \in DOMAIN models} :
            SelectPrintModel(modelName)
    \/ \E date \in PrintDates, rows \in HeavyRowChoices(printForm.rows) :
            AddPrint(date, rows, AllWritten)

SpecInventory == Init /\ [][NextInventory]_vars

\* C20: a print whose usage of a Filament exceeds what preventNegativeInventory finds
\* available is recorded only with the warning raised and overridden: a step that
\* appends such a print leaves the confirm() of the inventory check answered OK.
C20_ShortageRecordedOnlyOnOverride ==
    [][ /\ Len(prints') = Len(prints) + 1
        /\ \E i \in DOMAIN prints'[Len(prints')].filaments :
             LET usage == prints'[Len(prints')].filaments[i]
             IN  ~PreventNegativeInventory(usage.filamentId, usage.weight).canConsume
        => inventoryConfirm' = "override"
      ]_vars

----------------------------------------------------------------------------
(* Print dates *)

\* C21: no PrintRecord the page holds, and so none saveData writes, has a date later
\* than the current date, whether addPrint created it or saveEditPrint changed it
\* (dates are counted in days after the current date).
C21_NoFutureDatedPrint ==
    \A i \in DOMAIN prints : prints[i].date <= 0


----------------------------------------------------------------------------
(* deleteFilament's reference scan over the print history *)

\* the Filament ids a PrintRecord carries: its own filamentId and those of its
\* filaments list
CarriedFilamentIds(p) ==
    (IF p.filamentId = NoNum THEN {} ELSE {p.filamentId})
        \cup {p.filaments[i].filamentId : i \in DOMAIN p.filaments}

\* C22: a PrintRecord that carries Filament ids, none of them the id of the Filament
\* being deleted, does not block the deletion, whatever its color: with no Model
\* requiring the Filament and every PrintRecord carrying only other ids, a confirmed
\* deleteFilament removes the Filament.
C22_OtherIdNeverBlocksDeletion ==
    [][\A id \in FilamentIds :
            /\ DeleteFilament(id, TRUE, AllWritten)
            /\ ModelReferences(models, id) = {}
            /\ \A i \in DOMAIN prints :
                    /\ CarriedFilamentIds(prints[i]) # {}
                    /\ id \notin CarriedFilamentIds(prints[i])
            => id \notin FilamentIds'
      ]_vars


----------------------------------------------------------------------------
(* The filament-usage list of the print form: PrintForm.jsx and the rows   *)
(* of #printFilamentsContainer                                             *)
(*                                                                         *)
(* reactForm.formData is the form state of PrintForm, modelId the id of    *)
(* the option selected (NoNum for "Select a model..."), and                *)
(* reactForm.selectedModel the model setSelectedModel was given, <<>> for  *)
(* undefined.  The key `id` of a usage entry, which no operation reads, is *)
(* left out.                                                               *)

MaxUsages == 3

\* handleInputChange had it merged the requirements into the list the form holds
HandleInputChangeMerging(name, value, strict) ==
    LET k == IF strict THEN FindIndex(models, LAMBDA m : m.id = value) ELSE 0
        filamentUsages ==
            [i \in DOMAIN models[k].requirements |->
                [filamentId |-> models[k].requirements[i].filamentId,
                 materialType |-> models[k].requirements[i].materialType,
                 actualWeight |-> 0]]
    IN  /\ reactForm' =
              IF name = "modelId"
              THEN [formData |-> [reactForm.formData EXCEPT
                                     !.modelId = value,
                                     !.filamentUsages = IF k # 0 THEN @ \o filamentUsages ELSE @],
                    selectedModel |-> IF k = 0 THEN <<>> ELSE <<models[k]>>]
              ELSE [reactForm EXCEPT !.formData[name] = value]
        /\ Len(reactForm'.formData.filamentUsages) <= MaxUsages + MaxReqs
        /\ UNCHANGED <<filaments, models, prints, editingModelId, storage, now, printForm,
                       saveResult, grid, validation, search, inventoryConfirm>>

\* handleInputChange(e) with e.target the field name holding value; strict is whether
\* m.id === value can hold, the model context keeping its ids as the text the option
\* carries
HandleInputChange(name, value, strict) ==
    LET k == IF strict THEN FindIndex(models, LAMBDA m : m.id = value) ELSE 0
        filamentUsages ==
            [i \in DOMAIN models[k].requirements |->
                [filamentId |-> models[k].requirements[i].filamentId,
                 materialType |-> models[k].requirements[i].materialType,
                 actualWeight |-> 0]]
    IN  /\ reactForm' =
              IF name = "modelId"
              THEN [formData |-> [reactForm.formData EXCEPT
                                     !.modelId = value,
                                     !.filamentUsages = IF k # 0 THEN filamentUsages ELSE <<>>],
                    selectedModel |-> IF k = 0 THEN <<>> ELSE <<models[k]>>]
              ELSE [reactForm EXCEPT !.formData[name] = value]
        /\ UNCHANGED <<filaments, models, prints, editingModelId, storage, now, printForm,
                       saveResult, grid, validation, search, inventoryConfirm>>

\* addFilamentUsage(): an empty entry is appended
AddFilamentUsage ==
    /\ Len(reactForm.formData.filamentUsages) < MaxUsages
    /\ reactForm' = [reactForm EXCEPT !.formData.filamentUsages =
                        Append(@, [filamentId |-> NoNum, materialType |-> <<>>,
                                   actualWeight |-> 0])]
    /\ UNCHANGED <<filaments, models, prints, editingModelId, storage, now, printForm,
                   saveResult, grid, validation, search, inventoryConfirm>>

\* updateFilamentUsage(index, 'actualWeight', value)
UpdateFilamentUsage(index, value) ==
    /\ index \in DOMAIN reactForm.formData.filamentUsages
    /\ reactForm' = [reactForm EXCEPT !.formData.filamentUsages[index].actualWeight = value]
    /\ UNCHANGED <<filaments, models, prints, editingModelId, storage, now, printForm,
                   saveResult, grid, validation, search, inventoryConfirm>>

\* addPrintFilament(): one more empty row in #printFilamentsContainer
AddPrintFilament ==
    /\ Len(printForm.rows) < MaxUsages
    /\ printForm' = [printForm EXCEPT !.rows = Append(@, EmptyRow)]
    /\ UNCHANGED <<filaments, models, prints, editingModelId, storage, now, saveResult,
                   grid, pageVars>>

\* the weight input of row index of #printFilamentsContainer is typed in
TypeRowWeight(index, weight) ==
    /\ index \in DOMAIN printForm.rows
    /\ printForm' = [printForm EXCEPT !.rows[index].weight = weight]
    /\ UNCHANGED <<filaments, models, prints, editingModelId, storage, now, saveResult,
                   grid, pageVars>>

\* the print forms opened on a store with two Filaments and two Models, one requiring
\* both Filaments and one requiring the second
InitPrintForms ==
    /\ filaments = <<Fil(2, Acme, PLA, Red, HexRed, 175, "true"),
                     Fil(4, Bolt, PETG, Blue, HexGray, 285, "true")>>
    /\ models = <<[id |-> 6, name |-> Vase, link |-> <<>>,
                   requirements |-> <<Req(2, Red, UNDEF, PLA), Req(4, Blue, UNDEF, PETG)>>],
                  [id |-> 8, name |-> VaseLower, link |-> <<>>,
                   requirements |-> <<Req(4, Blue, UNDEF, PETG)>>]>>
    /\ prints = <<>>
    /\ editingModelId = NoNum
    /\ storage = SaveData(filaments, models, prints, EmptyStorage, AllWritten).storage
    /\ now = 1
    /\ printForm = [model |-> <<>>, rows |-> ClearedRows]
    /\ saveResult = "none"
    /\ PageIdle
    /\ grid = UpdateData(NewGrid, filaments)

NextPrintForms ==
    \/ \E value \in {NoNum} \cup ModelIds, strict \in BOOLEAN :
            HandleInputChange("modelId", value, strict)
    \/ \E date \in PrintDates : HandleInputChange("date", date, TRUE)
    \/ \E notes \in {<<>>, Red} : HandleInputChange("notes", notes, TRUE)
    \/ AddFilamentUsage
    \/ \E index \in 1..MaxUsages, value \in RowWeights : UpdateFilamentUsage(index, value)
    \/ \E modelName \in {<<>>} \cup {models[i].name : i \in DOMAIN models} :
            SelectPrintModel(modelName)
    \/ AddPrintFilament
    \/ \E index \in 1..MaxUsages, weight \in RowWeights : TypeRowWeight(index, weight)

SpecPrintForms == InitPrintForms /\ [][NextPrintForms]_vars


\* C23: selecting a Model in a print form replaces the whole filament-usage list by the
\* list derived from that Model, one entry per requirement in requirement order with
\* no weight, whatever the list held before (one empty row in the page's form for no
\* requirement), and a change of the date or the notes leaves the list as it is.
C23_ModelSelectionReplacesUsages ==
    [][ /\ \A value \in {NoNum} \cup ModelIds, strict \in BOOLEAN :
              HandleInputChange("modelId", value, strict)
              => LET selected == reactForm'.selectedModel
                     requirements == IF selected = <<>> THEN <<>>
                                     ELSE selected[1].requirements
                     usages == reactForm'.formData.filamentUsages
                 IN  /\ selected # <<>> => selected[1].id = value
                     /\ Len(usages) = Len(requirements)
                     /\ \A i \in DOMAIN usages :
                            /\ usages[i].filamentId = requirements[i].filamentId
                            /\ usages[i].materialType = requirements[i].materialType
                            /\ usages[i].actualWeight = 0
        /\ reactForm'.formData.date # reactForm.formData.date
                \/ reactForm'.formData.notes # reactForm.formData.notes
           => reactForm'.formData.filamentUsages = reactForm.formData.filamentUsages
        /\ \A i \in DOMAIN models :
              SelectPrintModel(models[i].name)
              => LET requirements ==
                        models[FindIndex(models, LAMBDA m : m.name = models[i].name)].requirements
                     rows == printForm'.rows
                 IN  /\ Len(rows) = IF requirements = <<>> THEN 1 ELSE Len(requirements)
                     /\ \A j \in DOMAIN rows : rows[j].weight = 0
                     /\ \A j \in DOMAIN requirements :
                            rows[j].select \in {requirements[j].filamentId, NoNum}
      ]_vars

\* both forms on a Model with one requirement, its one entry given a weight, and the
\* notes of the React form written
C23_OneRequirementSelected ==
    /\ reactForm.selectedModel # <<>>
    /\ reactForm.formData.modelId = 8
    /\ reactForm.formData.notes # <<>>
    /\ Len(reactForm.formData.filamentUsages) = 1
    /\ reactForm.formData.filamentUsages[1].actualWeight = 20
    /\ printForm.model = VaseLower
    /\ Len(printForm.rows) = 1
    /\ printForm.rows[1].weight = 20


----------------------------------------------------------------------------
(* The "Other" option of the material-type select *)

Other == <<"O","t","h","e","r">>

Nylon == <<"N","y","l","o","n">>

\* the material type validateForm validates and collectFilamentFormData collects: the
\* text of the custom input, trimmed, when the select is on "Other"
CustomMaterialType(select, custom) == IF select = Other THEN Trim(custom) ELSE select

\* the add-filament form with the material-type select on a type of the set or on
\* "Other" with a text typed in the custom input
OtherForms ==
    {[Fil(NoNum, Acme, PLA, Red, h, 175, "true") EXCEPT
            !.materialType = CustomMaterialType(select, custom)] :
        select \in {PLA, PETG, Other}, custom \in {Nylon, <<" ">> \o PETG, Other},
        h \in {HexRed, HexGray}}

NextOther ==
    \/ \E form \in OtherForms, merge \in BOOLEAN : AddFilament(form, 0, merge, AllWritten)
    \/ \E id \in FilamentIds, confirmed \in BOOLEAN : DeleteFilament(id, confirmed, AllWritten)

SpecOther == Init /\ [][NextOther]_vars

\* C24: a material type typed through "Other" that is not in the material-type set
\* passes validateField('materialType', ...) and is added: while there is room for one
\* more Filament, addFilament can add the form that holds it.
C24_OtherMaterialPassesAndIsAdded ==
    LET form == [Fil(NoNum, Acme, PLA, Red, HexRed, 175, "true") EXCEPT
                    !.materialType = CustomMaterialType(Other, Nylon)]
    IN  form.materialType \notin MaterialTypes
        => /\ ValidateField("materialType", Str(form.materialType)).valid
           /\ Len(filaments) < MaxFilaments /\ now < MaxNow
                   => \E merge \in BOOLEAN : ENABLED AddFilament(form, 0, merge, AllWritten)


----------------------------------------------------------------------------
(* The page index across refreshes of the grid *)

\* the filament grid of a store of up to MaxPageRows Filaments: what the user does on
\* the grid, an edit of the first Filament saved, and updateAllTables() on its own
NextRefresh ==
    \/ \E page \in 1..MaxPageRows : GoToPage(page)
    \/ \E newSize \in PageSizes : ChangePageSize(newSize)
    \/ \E value \in SearchValues : SearchInput(value)
    \/ \E color \in {Red, Blue} :
            /\ filaments # <<>>
            /\ SaveEditFilament(filaments[1].id, color, "true", AllWritten)
    \/ RefreshGrid

SpecRefresh == InitPages /\ [][NextRefresh]_vars

\* C25: a re-render of the grid that is no page navigation, filter, sort or page-size
\* change preserves the page index: the refresh that follows a saved edit of a
\* Filament, and updateAllTables() on its own, leave currentPage as it was.
C25_RefreshPreservesPage ==
    [][ (\/ RefreshGrid
         \/ \E color \in {Red, Blue} :
                /\ filaments # <<>>
                /\ SaveEditFilament(filaments[1].id, color, "true", AllWritten))
        => grid'.currentPage = grid.currentPage
      ]_vars


----------------------------------------------------------------------------
(* The envelope and the mirrored keys *)

\* C26: after every saveData call, whether it returned true, refused or a setItem
\* threw part-way, the collections inside the 'printstackData' envelope are the ones
\* mirrored under the keys 'filaments', 'models' and 'prints', which loadData reads.
C26_EnvelopeEqualsMirroredKeys ==
    saveResult # "none"
    => IF storage.printstackData = NoItem
       THEN storage.filaments = NoItem /\ storage.models = NoItem /\ storage.prints = NoItem
       ELSE LET envelope == storage.printstackData[2]
            IN  /\ storage.filaments = JSONStringify(envelope.filaments)
                /\ storage.models = JSONStringify(envelope.models)
                /\ storage.prints = JSONStringify(envelope.prints)


----------------------------------------------------------------------------
(* Filament ids across a reload *)

\* C27: a Filament's id never changes after creation: each Filament saveData wrote
\* under the key 'filaments' has, after the page is loaded again, the id it was
\* stored with.
C27_IdSurvivesReload ==
    [][ Reload(AllWritten) /\ storage.filaments # NoItem
        => LET stored == storage.filaments[2]
           IN  /\ Len(filaments') = Len(stored)
               /\ \A i \in DOMAIN stored : filaments'[i].id = stored[i].id
      ]_vars


----------------------------------------------------------------------------
(* The order of the visible rows against the recorded sort *)

\* the place of a character in localeCompare's order of lowercased text: the letters
\* in alphabetical order, every other character before them
CharRank(c) ==
    IF \E i \in DOMAIN Lower : Lower[i] = c
    THEN CHOOSE i \in DOMAIN Lower : Lower[i] = c
    ELSE 0

\* a.localeCompare(b) < 0 for lowercased texts
LocaleCompareBefore(a, b) ==
    \E k \in 0..Min(Len(a), Len(b)) :
        /\ \A i \in 1..k : a[i] = b[i]
        /\ \/ k = Len(a) /\ k < Len(b)
           \/ k < Len(a) /\ k < Len(b) /\ CharRank(a[k + 1]) < CharRank(b[k + 1])

\* the value the comparators of sort() take of a row for the column the header names:
\* `value || 0` for the number column, String(value || '').toLowerCase() for the others
SortValue(item, column) ==
    IF column = "weight" THEN (IF FalsyNum(item.weight) THEN 0 ELSE item.weight)
    ELSE IF column = "inStock" THEN (IF item.inStock = "true" THEN <<"t","r","u","e">> ELSE <<>>)
    ELSE IF Falsy(item[column]) THEN <<>> ELSE ToLowerCase(item[column])

\* the comparator of sort() puts a before b
SortsBefore(a, b, column, ascending) ==
    LET aVal == SortValue(a, column)
        bVal == SortValue(b, column)
        before(x, y) == IF column = "weight" THEN x < y ELSE LocaleCompareBefore(x, y)
    IN  IF ascending THEN before(aVal, bVal) ELSE before(bVal, aVal)

\* the visible rows of g are in the order its sort indicator shows
OrderedByCurrentSort(g) ==
    g.currentSort.column # NoColumn =>
        \A i \in 1..(Len(g.visibleData) - 1) :
            ~SortsBefore(g.visibleData[i + 1], g.visibleData[i],
                         g.currentSort.column, g.currentSort.ascending)

\* C28: after any sequence of sort and filter operations the visible rows are ordered
\* according to the grid's recorded sort column and direction; applying or clearing a
\* filter does not discard the sort order the indicator still shows: a filter applied
\* or cleared on rows that are in the recorded order leaves rows in the recorded order.
C28_FilterKeepsSortOrder ==
    [][ /\ (\E value \in SearchValues : SearchInput(value)) \/ SearchEscape
        /\ OrderedByCurrentSort(grid)
        => OrderedByCurrentSort(grid')
      ]_vars


----------------------------------------------------------------------------
(* The Escape key against the pending debounce timer *)

\* C29: after the Escape key clears the search box no filter recomputation remains
\* pending, so that no timer an earlier keystroke started can fire afterwards and
\* put the grid back on page 1: the Escape key leaves no timer pending.
C29_EscapeLeavesNoTimerPending ==
    [][EscapeKey => search'.timers = {}]_vars


----------------------------------------------------------------------------
(* The current page against the number of pages *)

\* the grid of a store of Filaments that changes: what the user does on the grid, a
\* Filament added by the form and the last Filament deleted
NextPaging ==
    \/ \E column \in ColumnKeys : Sort(column)
    \/ \E value \in SearchValues : SearchInput(value)
    \/ SearchEscape
    \/ \E page \in 1..MaxPageRows : GoToPage(page)
    \/ \E newSize \in PageSizes : ChangePageSize(newSize)
    \/ \E form \in FilamentForms, merge \in BOOLEAN : AddFilament(form, 0, merge, AllWritten)
    \/ /\ filaments # <<>>
       /\ DeleteFilament(filaments[Len(filaments)].id, TRUE, AllWritten)

\* the longest collection the grid is opened on where Filaments are also added and
\* deleted
MaxPagingRows == 31

\* the page opened on a stored collection of n Filaments: none, one, one more than a
\* page of the smallest size, one more than the default size, and the longest
InitPaging ==
    /\ \E n \in {0, 1, 11, 26, MaxPagingRows} :
            storage = [EmptyStorage EXCEPT !.filaments = JSONStringify([i \in 1..n |-> Spool(i)])]
    /\ filaments = LoadKey(storage.filaments, MigrateFilament)
    /\ models = <<>>
    /\ prints = <<>>
    /\ editingModelId = NoNum
    /\ now = 1
    /\ printForm = [model |-> <<>>, rows |-> ClearedRows]
    /\ saveResult = "none"
    /\ PageIdle
    /\ grid = UpdateData(NewGrid, filaments)

SpecPaging == InitPaging /\ [][NextPaging]_vars

\* C30: in every reachable grid state the current page lies between 1 and
\* max(1, ceil(visible rows / page size)), after any sequence of page navigation
\* through enabled controls, filtering, sorting, page-size changes and changes to the
\* underlying collection.
C30_CurrentPageInRange ==
    /\ grid.currentPage >= 1
    /\ grid.currentPage <= (IF TotalPages(grid) > 1 THEN TotalPages(grid) ELSE 1)

\* the grid shows the last of several pages of a filtered collection, after a header
\* click, a page-size change and a deletion
C30_LastPageAfterEveryKindOfChange ==
    /\ TotalPages(grid) >= 2
    /\ grid.currentPage = TotalPages(grid)
    /\ Len(grid.visibleData) < Len(grid.originalData)
    /\ grid.currentSort.column # NoColumn
    /\ grid.itemsPerPage # NewGrid.itemsPerPage
    /\ Len(filaments) \notin {0, 1, 11, 26, MaxPagingRows}

============================================================================
